---- MODULE Spec2Model ----
(***************************************************************************)
(* Model of gitlab-scripts/monitor_pipeline.py: one run of                 *)
(* monitor_repository(repo_path, gl) against the GitLab API.  Every call   *)
(* to the python-gitlab client is a step whose answer (a value or a raised *)
(* exception) is chosen by the environment.                                *)
(***************************************************************************)
EXTENDS Integers, Sequences, FiniteSets, TLC

(* ---------------- bounds of the model ---------------- *)

\* largest THRESHOLD tried (THRESHOLD = int(os.getenv("THRESHOLD", 3)) is any integer)
MaxThreshold == 2
\* number of pipeline.refresh() calls after which the environment is no longer explored
MaxPolls == 3
\* longest list pipeline.jobs.list(all=True) answers with
MaxJobsListed == 2
\* load_repositories: most pieces of text a line of the repositories file is made of
MaxChunks == 3
\* load_repositories: most lines of the repositories file
MaxLines == 2
\* stop_pipelines: the time datetime.utcnow() answers with, in days; times run from 0
StopNow == 3
\* stop_pipelines: most pipelines a repository holds
MaxStopPipelines == 2
\* export_vault: deepest path of a secret of the store
MaxVaultDepth == 3
\* export_vault: most secrets the store holds
MaxSecrets == 2
\* monitor_pipeline.py main: most polls of one MonitorThread
MaxThreadPolls == 2
\* run_pipelines.py: most pipelines triggered, and the largest timeout
MaxTriggered == 2
MaxTimeout == 2
\* gitlab_batch_update.py: most repositories in REPOS_FILE
MaxBatchRepos == 3

(* ---------------- the environment's value sets ---------------- *)

\* values of THRESHOLD: a negative one, zero and the positive ones up to the bound
Thresholds == {-1} \cup (0 .. MaxThreshold)

GITLAB_URL == "https://gitlab.example"
repo_path == "org/app"

PipelineIds == {101, 102}
PipelineStatuses == {"pending", "running", "success", "failed", "canceled", "skipped"}

\* job instances of the pipeline; two instances share the name "build"
JobIds == {1, 2, 3}
JobNames == {"build", "deploy"}
JobNameOf(id) == IF id = 3 THEN "deploy" ELSE "build"
JobStatuses == {"failed", "canceled", "success", "running"}

\* messages of the exceptions the client raises
Errors == {"403 Forbidden", "Connection timed out"}

\* Python's None; every formatted string and every object of the model is non-empty
None == <<>>

\* the answers of pipeline.jobs.list(all=True): lists of distinct job ids
JobLists ==
    {s \in UNION {[1 .. n -> JobIds] : n \in 0 .. MaxJobsListed} :
        \A i, j \in DOMAIN s : i # j => s[i] # s[j]}

(* ---------------- state ---------------- *)

VARIABLES
    THRESHOLD,              \* module constant read from the environment
    pc,                     \* position of the worker in monitor_repository
    success,                \* local success
    failed_pipelines,       \* local failed_pipelines: list of reasons
    job_failures_by_name,   \* local dict: job name -> failure count
    retries,                \* local retries
    pipeline,               \* None or [id, status]
    jobs,                   \* list of partial jobs (ids) of the current iteration
    idx,                    \* index of the for loop over jobs
    full_job,               \* None or [id, name, status]
    failed_any_job,         \* local failed_any_job
    result,                 \* None or the dict returned
    \* history of the run (not state of the program)
    nRefresh,               \* calls of pipeline.refresh()
    nListJobs,              \* calls of pipeline.jobs.list()
    nRetry,                 \* calls of full_job.retry()
    observed,               \* job name -> times seen failed or canceled
    raised,                 \* the messages of the exceptions raised so far
    retriesSinceRefresh,    \* calls of full_job.retry() since the last pipeline.refresh()
    pausedSinceRefresh      \* whether sleep(5) was called since the last pipeline.refresh()

vars == <<THRESHOLD, pc, success, failed_pipelines, job_failures_by_name, retries,
          pipeline, jobs, idx, full_job, failed_any_job, result,
          nRefresh, nListJobs, nRetry, observed, raised, retriesSinceRefresh,
          pausedSinceRefresh>>

locals == <<success, failed_pipelines, job_failures_by_name, retries>>
history == <<nRefresh, nListJobs, nRetry, observed, raised, retriesSinceRefresh,
            pausedSinceRefresh>>

\* one call of load_repositories(file_path)
VARIABLES
    loader_url,             \* the text of GITLAB_URL, character by character
    loader_file,            \* the lines of the file, each a sequence of characters
    loader_i,               \* index of the line the comprehension reads next
    loader_out,             \* the list repositories built so far
    loader_pc               \* "idle", "reading" or "returned"

loaderVars == <<loader_url, loader_file, loader_i, loader_out, loader_pc>>

\* one call of stop_pipelines(gl, after, before, all_pipelines, branch_name_filter,
\* repositories) of stop_pipeline_runs.py
VARIABLES
    after,                  \* argument: None, [days |-> x] or [iso |-> t]
    before,                 \* argument: None, [days |-> x] or [iso |-> t]
    all_pipelines,          \* argument
    branch_name_filter,     \* argument: list of refs (None and [] are both <<>>)
    stop_repositories,      \* argument repositories
    server_pipelines,       \* the pipelines each repository holds on the server
    after_iso,              \* local: None or [iso |-> t]
    before_iso,             \* local: None or [iso |-> t]
    stopped_pipelines,      \* local dict: repo_path -> counts and pipelines
    pipelines,              \* local: the list fetched for the current repository
    detected_count,         \* local
    stopped_count,          \* local
    skipped_count,          \* local
    stop_r,                 \* index of the for loop over repositories
    stop_k,                 \* index of the for loop over pipelines
    stop_pc,                \* position in stop_pipelines
    cancel_calls,           \* history: the pipelines pipeline.cancel() was called on
    cancel_errors           \* history: calls of pipeline.cancel() that raised, per repository

stopVars == <<after, before, all_pipelines, branch_name_filter, stop_repositories,
              server_pipelines, after_iso, before_iso, stopped_pipelines, pipelines,
              detected_count, stopped_count, skipped_count, stop_r, stop_k, stop_pc,
              cancel_calls, cancel_errors>>

\* one run of vault_scripts/export_vault.py against a KV store
VARIABLES
    vault_store,            \* the store: its secrets and what the token may not do
    vault_base,             \* the path scanned: base_path, the one line of vault_paths.txt
    vault_result,           \* what export_namespace returned
    root_structure,         \* local of export_selected_paths, written to the output file
    vault_pc                \* "idle", "call", "returned" (export_namespace) or "exported"

vaultVars == <<vault_store, vault_base, vault_result, root_structure, vault_pc>>

\* one run of the script monitor_pipeline.py: module level, main, its threads
VARIABLES
    environ,                \* os.environ: GITLAB_URL, PRIVATE_TOKEN, THRESHOLD (None when unset)
    repos_file,             \* the lines of REPOS_FILE, None when there is no such file
    gitlab_up,              \* whether gl.auth() succeeds
    main_pc,                \* where the main thread is
    run_threshold,          \* the global THRESHOLD of this run (line 33)
    repositories,           \* local of main
    threads,                \* local of main: the MonitorThread objects
    workers,                \* the frame of monitor_repository of each thread
    main_k,                 \* index of the for loop of lines 277-279
    results,                \* local of main
    summary,                \* the counts and the list generate_summary builds
    exit_code,              \* <<>> while the process runs, then <<code>>
    alone,                  \* history: the frame each thread's own answers lead to
    finished                \* history: the threads in the order they terminated

mainVars == <<environ, repos_file, gitlab_up, main_pc, run_threshold, repositories, threads,
              workers, main_k, results, summary, exit_code, alone, finished>>

\* one call of monitor_pipelines of run_pipelines.py
VARIABLES
    successful_repos,       \* the argument: the pipelines that were triggered
    timeout,                \* the argument, in units of the argument interval
    elapsed_time,           \* time.time() - start_time, in the same units
    pending_pipelines,      \* the dict pipeline_id -> repo
    completed_pipelines,    \* list of repos
    run_failed_pipelines,   \* the list failed_pipelines of monitor_pipelines
    to_remove,              \* list of pipeline ids
    run_iter,               \* the keys the for loop of line 153 has still to visit
    run_pc,                 \* "idle", "loop", "check", "remove", "returned" or "raised"
    last_status,            \* history: the last answer of pipelines.get per pipeline id
    seen_manual,            \* history: the ids that were observed in manual status
    left_by                 \* history: "timeout" or "drained" once the loop is left

runVars == <<successful_repos, timeout, elapsed_time, pending_pipelines,
             completed_pipelines, run_failed_pipelines, to_remove, run_iter, run_pc,
             last_status, seen_manual, left_by>>

\* one run of the loop of gitlab_batch_update.py over the repositories
VARIABLES
    batch_repositories,     \* the list repositories of line 56
    batch_k,                \* position of the for loop of line 73, from 1
    repo_dir,               \* None or os.path.basename(project_path)
    disk,                   \* the directories that exist in the working directory
    target_file,            \* TARGET_FILE in the clone: "none", "missing", "same", "differs"
    failed_repos,           \* list of {"repo_url", "error"}
    no_changes_repos,       \* list of {"repo_url", "reason"}
    successful_pushes,      \* counter
    batch_pc,               \* "idle", "for", "clone", "checkout", "update", "commit",
                            \* "except", "finally", "summary", "done" or "crashed"
    batch_error,            \* the exception the except clause of line 131 has caught
    report_written,         \* summary_report.txt was written
    cloned,                 \* history: Repo.clone_from was called in this iteration
    at_start                \* history: the three totals when this iteration began

batchVars == <<batch_repositories, batch_k, repo_dir, disk, target_file, failed_repos,
               no_changes_repos, successful_pushes, batch_pc, batch_error,
               report_written, cloned, at_start>>

\* everything but the state of the monitor_repository run
notMonitor == <<loaderVars, stopVars, vaultVars, mainVars, runVars, batchVars>>
\* everything but the state of the load_repositories call
notLoader == <<vars, stopVars, vaultVars, mainVars, runVars, batchVars>>
\* everything but the state of the stop_pipelines call
notStop == <<vars, loaderVars, vaultVars, mainVars, runVars, batchVars>>
\* everything but the state of the export_vault run
notVault == <<vars, loaderVars, stopVars, mainVars, runVars, batchVars>>
\* everything but the state of the run of the script monitor_pipeline.py
notMain == <<vars, loaderVars, stopVars, vaultVars, runVars, batchVars>>
\* everything but the state of the call of monitor_pipelines
notRun == <<vars, loaderVars, stopVars, vaultVars, mainVars, batchVars>>
\* everything but the state of the run of the loop of gitlab_batch_update.py
notBatch == <<vars, loaderVars, stopVars, vaultVars, mainVars, runVars>>

(* ---------------- formatted strings, as the lists of their parts ---------------- *)

\* a part of a formatted string: literal or interpolated text ...
Text(s) == [text |-> s]
\* ... or the decimal text str(n) of an integer
Str(n) == [str |-> n]

\* "No pipeline found"
NoPipelineReason == <<Text("No pipeline found")>>
\* variant of ThresholdReason: the message does not interpolate job_name
ThresholdReason_NoJobName(pid, job_name, threshold) ==
    <<Text("Pipeline "), Str(pid), Text(" failed due to a job exceeding "),
      Str(threshold), Text(" failures.")>>

\* f"Pipeline {pipeline.id} failed due to job '{job_name}' exceeding {THRESHOLD} failures."
ThresholdReason(pid, job_name, threshold) ==
    <<Text("Pipeline "), Str(pid), Text(" failed due to job '"), Text(job_name),
      Text("' exceeding "), Str(threshold), Text(" failures.")>>
\* f"Pipeline {pipeline.id} did not succeed"
DidNotSucceedReason(pid) == <<Text("Pipeline "), Str(pid), Text(" did not succeed")>>
\* f"Exception: {str(e)}"
ExceptionReason(e) == <<Text("Exception: "), Text(e)>>
\* variant of PipelineUrl: the URL of the pipelines page, without pipeline.id
PipelineUrl_NoId(pid) ==
    <<Text(GITLAB_URL), Text("/"), Text(repo_path), Text("/pipelines/")>>

\* f"{GITLAB_URL}/{repo_path}/pipelines/{pipeline.id}"
PipelineUrl(pid) ==
    <<Text(GITLAB_URL), Text("/"), Text(repo_path), Text("/pipelines/"), Str(pid)>>

\* a formatted string contains the text of one of its parts
Contains(str, part) == \E i \in DOMAIN str : str[i] = part

(* ---------------- the dict job_failures_by_name ---------------- *)

\* variant of SetDefault: the entry is set to 0 whether or not the key is there
SetDefault_Resets(d, k) == [x \in DOMAIN d \cup {k} |-> IF x = k THEN 0 ELSE d[x]]

\* job_failures_by_name.setdefault(job_name, 0)
SetDefault(d, k) == IF k \in DOMAIN d THEN d ELSE d @@ (k :> 0)
\* the tally of a name, 0 while the name has no entry
Tally(k) == IF k \in DOMAIN job_failures_by_name THEN job_failures_by_name[k] ELSE 0

(* ---------------- the results monitor_repository returns ---------------- *)

MkResult(s, fp, url, r) ==
    [repo |-> repo_path, success |-> s, failed_pipelines |-> fp,
     last_pipeline_url |-> url, retries |-> r]

\* variant of NoPipelineResult: the reason list is left empty
NoPipelineResult_NoReason == MkResult(FALSE, <<>>, None, 0)

\* lines 97-103
NoPipelineResult == MkResult(FALSE, <<NoPipelineReason>>, None, 0)

\* lines 195-203: the handler of the outer try
ExceptionResult(e) == MkResult(FALSE, <<ExceptionReason(e)>>, None, 0)

\* variant of FinalResult: no default reason when failed_pipelines is empty
FinalResult_NoFallback ==
    IF success
    THEN MkResult(TRUE, <<>>, PipelineUrl(pipeline.id), retries)
    ELSE MkResult(FALSE, failed_pipelines, None, retries)

\* lines 178-193
FinalResult ==
    IF success
    THEN MkResult(TRUE, <<>>, PipelineUrl(pipeline.id), retries)
    ELSE MkResult(FALSE,
                  IF failed_pipelines # <<>> THEN failed_pipelines
                  ELSE <<DidNotSucceedReason(pipeline.id)>>,
                  None, retries)

(* ---------------- the other programs at rest ---------------- *)

\* no call of load_repositories is under way
LoaderIdle ==
    /\ loader_url = <<>>
    /\ loader_file = <<>>
    /\ loader_i = 0
    /\ loader_out = <<>>
    /\ loader_pc = "idle"

\* no call of stop_pipelines is under way
StopIdle ==
    /\ after = None
    /\ before = None
    /\ all_pipelines = FALSE
    /\ branch_name_filter = <<>>
    /\ stop_repositories = <<>>
    /\ server_pipelines = <<>>
    /\ after_iso = None
    /\ before_iso = None
    /\ stopped_pipelines = <<>>
    /\ pipelines = <<>>
    /\ detected_count = 0
    /\ stopped_count = 0
    /\ skipped_count = 0
    /\ stop_r = 0
    /\ stop_k = 0
    /\ stop_pc = "idle"
    /\ cancel_calls = <<>>
    /\ cancel_errors = 0

\* no run of export_vault is under way
VaultIdle ==
    /\ vault_store = <<>>
    /\ vault_base = <<>>
    /\ vault_result = None
    /\ root_structure = <<>>
    /\ vault_pc = "idle"

\* the script monitor_pipeline.py is not running
MainIdle ==
    /\ environ = <<>>
    /\ repos_file = [exists |-> FALSE]
    /\ gitlab_up = FALSE
    /\ main_pc = "idle"
    /\ run_threshold = 3
    /\ repositories = <<>>
    /\ threads = <<>>
    /\ workers = <<>>
    /\ main_k = 0
    /\ results = <<>>
    /\ summary = None
    /\ exit_code = <<>>
    /\ alone = <<>>
    /\ finished = <<>>

\* monitor_pipelines of run_pipelines.py is not running
RunIdle ==
    /\ successful_repos = <<>>
    /\ timeout = 0
    /\ elapsed_time = 0
    /\ pending_pipelines = <<>>
    /\ completed_pipelines = <<>>
    /\ run_failed_pipelines = <<>>
    /\ to_remove = <<>>
    /\ run_iter = <<>>
    /\ run_pc = "idle"
    /\ last_status = <<>>
    /\ seen_manual = {}
    /\ left_by = "none"

\* the loop of gitlab_batch_update.py is not running
BatchIdle ==
    /\ batch_repositories = <<>>
    /\ batch_k = 0
    /\ repo_dir = None
    /\ disk = {}
    /\ target_file = "none"
    /\ failed_repos = <<>>
    /\ no_changes_repos = <<>>
    /\ successful_pushes = 0
    /\ batch_pc = "idle"
    /\ batch_error = "none"
    /\ report_written = FALSE
    /\ cloned = FALSE
    /\ at_start = <<0, 0, 0>>

(* ---------------- initial state: lines 83-89 ---------------- *)

Init ==
    /\ THRESHOLD \in Thresholds
    /\ pc = "get_project"
    /\ success = FALSE
    /\ failed_pipelines = <<>>
    /\ job_failures_by_name = <<>>
    /\ retries = 0
    /\ pipeline = None
    /\ jobs = <<>>
    /\ idx = 0
    /\ full_job = None
    /\ failed_any_job = FALSE
    /\ result = None
    /\ nRefresh = 0
    /\ nListJobs = 0
    /\ nRetry = 0
    /\ observed = [n \in JobNames |-> 0]
    /\ raised = <<>>
    /\ retriesSinceRefresh = 0
    /\ pausedSinceRefresh = FALSE
    /\ LoaderIdle
    /\ StopIdle
    /\ VaultIdle
    /\ MainIdle
    /\ RunIdle
    /\ BatchIdle

\* an exception reaching the outer handler (lines 195-203)
RaiseOuter(e) ==
    /\ raised' = <<e>>
    /\ result' = ExceptionResult(e)
    /\ pc' = "done"

\* line 92: project = gl.projects.get(repo_path)
GetProject ==
    /\ UNCHANGED notMonitor
    /\ pc = "get_project"
    /\ \/ /\ pc' = "list_pipelines"
          /\ UNCHANGED <<result, raised>>
       \/ \E e \in Errors : RaiseOuter(e)
    /\ UNCHANGED <<THRESHOLD, locals, pipeline, jobs, idx, full_job, failed_any_job,
                   nRefresh, nListJobs, nRetry, observed, retriesSinceRefresh,
                   pausedSinceRefresh>>

\* lines 94-106: project.pipelines.list(per_page=1, ...), the empty answer, pipelines[0]
ListPipelines ==
    /\ UNCHANGED notMonitor
    /\ pc = "list_pipelines"
    /\ \/ /\ result' = NoPipelineResult
          /\ pc' = "done"
          /\ UNCHANGED <<pipeline, raised>>
       \/ /\ \E id \in PipelineIds, s \in PipelineStatuses :
                pipeline' = [id |-> id, status |-> s]
          /\ pc' = "refresh"
          /\ UNCHANGED <<result, raised>>
       \/ /\ \E e \in Errors : RaiseOuter(e)
          /\ UNCHANGED pipeline
    /\ UNCHANGED <<THRESHOLD, locals, jobs, idx, full_job, failed_any_job,
                   nRefresh, nListJobs, nRetry, observed, retriesSinceRefresh,
                   pausedSinceRefresh>>

\* line 109: pipeline.refresh()
RefreshPipeline ==
    /\ UNCHANGED notMonitor
    /\ pc = "refresh"
    /\ nRefresh < MaxPolls
    /\ nRefresh' = nRefresh + 1
    /\ retriesSinceRefresh' = 0
    /\ pausedSinceRefresh' = FALSE
    /\ \/ /\ \E s \in PipelineStatuses : pipeline' = [pipeline EXCEPT !.status = s]
          /\ pc' = "list_jobs"
          /\ UNCHANGED <<result, raised>>
       \/ /\ \E e \in Errors : RaiseOuter(e)
          /\ UNCHANGED pipeline
    /\ UNCHANGED <<THRESHOLD, locals, jobs, idx, full_job, failed_any_job,
                   nListJobs, nRetry, observed>>

\* the for loop of line 119 takes the job at index i, or ends and reaches line 162
ForJobs(js, i) == IF i <= Len(js) THEN "job_get" ELSE "check_failed_any_job"

\* lines 110-117: jobs = pipeline.jobs.list(all=True), then the test of pipeline.status
ListJobs ==
    /\ UNCHANGED notMonitor
    /\ pc = "list_jobs"
    /\ nListJobs' = nListJobs + 1
    /\ \/ /\ \E js \in JobLists : jobs' = js
          /\ IF pipeline.status = "success"
             THEN /\ success' = TRUE
                  /\ pc' = "return"
                  /\ UNCHANGED <<failed_any_job, idx>>
             ELSE /\ failed_any_job' = FALSE
                  /\ idx' = 1
                  /\ pc' = ForJobs(jobs', 1)
                  /\ UNCHANGED success
          /\ UNCHANGED <<result, raised>>
       \/ /\ \E e \in Errors : RaiseOuter(e)
          /\ UNCHANGED <<jobs, success, failed_any_job, idx>>
    /\ UNCHANGED <<THRESHOLD, failed_pipelines, job_failures_by_name, retries,
                   pipeline, full_job, nRefresh, nRetry, observed, retriesSinceRefresh,
                   pausedSinceRefresh>>

\* lines 120-126: full_job = project.jobs.get(partial_job.id); an exception is
\* logged, sets failed_any_job and leaves the for loop
GetJob ==
    /\ UNCHANGED notMonitor
    /\ pc = "job_get"
    /\ \/ /\ \E s \in JobStatuses :
                full_job' = [id |-> jobs[idx], name |-> JobNameOf(jobs[idx]), status |-> s]
          /\ pc' = "job_refresh"
          /\ UNCHANGED <<failed_any_job, raised>>
       \/ /\ \E e \in Errors : raised' = <<e>>
          /\ failed_any_job' = TRUE
          /\ pc' = "check_failed_any_job"
          /\ UNCHANGED full_job
    /\ UNCHANGED <<THRESHOLD, locals, pipeline, jobs, idx, result,
                   nRefresh, nListJobs, nRetry, observed, retriesSinceRefresh,
                   pausedSinceRefresh>>

\* line 130: full_job.status in ["failed", "canceled"]
IsFailedStatus(s) == s \in {"failed", "canceled"}

\* variant of BelowThreshold: the comparison admits a count equal to the threshold
BelowThreshold_Inclusive(count, threshold) == count <= threshold

\* line 135: job_failures_by_name[job_name] < THRESHOLD
BelowThreshold(count, threshold) == count < threshold

\* variant of RetriesAfter: the retry is not counted
RetriesAfter_NotCounted(r) == r

\* variant of RetriesAfter: a retry is counted twice
RetriesAfter_Twice(r) == r + 2

\* line 137: retries += 1
RetriesAfter(r) == r + 1

\* lines 128-142 and 150-160: full_job.refresh(), then the job's status decides
RefreshJob ==
    /\ UNCHANGED notMonitor
    /\ pc = "job_refresh"
    /\ \/ /\ \E s \in JobStatuses : full_job' = [full_job EXCEPT !.status = s]
          /\ LET job_name == full_job.name
                 d == SetDefault(job_failures_by_name, job_name)
             IN  IF IsFailedStatus(full_job'.status)
                 THEN /\ observed' = [observed EXCEPT ![job_name] = @ + 1]
                      /\ IF BelowThreshold(d[job_name], THRESHOLD)
                         THEN /\ job_failures_by_name' = [d EXCEPT ![job_name] = @ + 1]
                              /\ retries' = RetriesAfter(retries)
                              /\ pc' = "retry"
                              /\ UNCHANGED <<failed_pipelines, failed_any_job>>
                         ELSE /\ job_failures_by_name' = d
                              /\ failed_pipelines' = Append(failed_pipelines,
                                    ThresholdReason(pipeline.id, job_name, THRESHOLD))
                              /\ failed_any_job' = TRUE
                              /\ pc' = "check_failed_any_job"
                              /\ UNCHANGED retries
                      /\ UNCHANGED idx
                 ELSE /\ idx' = idx + 1
                      /\ pc' = ForJobs(jobs, idx + 1)
                      /\ UNCHANGED <<failed_pipelines, job_failures_by_name, retries,
                                     failed_any_job, observed>>
          /\ UNCHANGED <<result, raised>>
       \/ /\ \E e \in Errors : RaiseOuter(e)
          /\ UNCHANGED <<full_job, failed_pipelines, job_failures_by_name, retries,
                         failed_any_job, observed, idx>>
    /\ UNCHANGED <<THRESHOLD, success, pipeline, jobs, nRefresh, nListJobs, nRetry,
                   retriesSinceRefresh, pausedSinceRefresh>>

\* lines 143-149: full_job.retry(); an exception is logged, sets failed_any_job
\* and leaves the for loop
RetryJob ==
    /\ UNCHANGED notMonitor
    /\ pc = "retry"
    /\ nRetry' = nRetry + 1
    /\ retriesSinceRefresh' = retriesSinceRefresh + 1
    /\ UNCHANGED pausedSinceRefresh
    /\ \/ /\ pc' = "sleep_retry"
          /\ UNCHANGED <<failed_any_job, raised>>
       \/ /\ \E e \in Errors : raised' = <<e>>
          /\ failed_any_job' = TRUE
          /\ pc' = "check_failed_any_job"
    /\ UNCHANGED <<THRESHOLD, locals, pipeline, jobs, idx, full_job, result,
                   nRefresh, nListJobs, observed>>

\* variant of SleepAfterRetry: after the pause the for loop starts over at the first job
SleepAfterRetry_StartsOver ==
    /\ UNCHANGED notMonitor
    /\ pc = "sleep_retry"
    /\ idx' = 1
    /\ pc' = ForJobs(jobs, 1)
    /\ pausedSinceRefresh' = TRUE
    /\ UNCHANGED <<THRESHOLD, locals, pipeline, jobs, full_job, failed_any_job, result,
                   nRefresh, nListJobs, nRetry, observed, raised, retriesSinceRefresh>>

\* line 145: sleep(5), then the for loop goes on with the next job
SleepAfterRetry ==
    /\ UNCHANGED notMonitor
    /\ pc = "sleep_retry"
    /\ idx' = idx + 1
    /\ pc' = ForJobs(jobs, idx + 1)
    /\ pausedSinceRefresh' = TRUE
    /\ UNCHANGED <<THRESHOLD, locals, pipeline, jobs, full_job, failed_any_job, result,
                   nRefresh, nListJobs, nRetry, observed, raised, retriesSinceRefresh>>

\* variant of CheckFailedAnyJob: failed_any_job does not leave the while loop
CheckFailedAnyJob_IgnoresFlag ==
    /\ UNCHANGED notMonitor
    /\ pc = "check_failed_any_job"
    /\ pc' = IF pipeline.status \notin {"success", "failed", "canceled"}
             THEN "sleep_poll"
             ELSE "refresh"
    /\ UNCHANGED <<THRESHOLD, locals, pipeline, jobs, idx, full_job, failed_any_job,
                   result, history>>

\* variant of CheckFailedAnyJob: a failed or canceled pipeline also leaves the loop
CheckFailedAnyJob_GivesUp ==
    /\ UNCHANGED notMonitor
    /\ pc = "check_failed_any_job"
    /\ pc' = IF failed_any_job THEN "return"
             ELSE IF pipeline.status \notin {"success", "failed", "canceled"}
                  THEN "sleep_poll"
                  ELSE "return"
    /\ UNCHANGED <<THRESHOLD, locals, pipeline, jobs, idx, full_job, failed_any_job,
                   result, history>>

\* lines 162-175: leave the while loop, pause, or poll again at once
CheckFailedAnyJob ==
    /\ UNCHANGED notMonitor
    /\ pc = "check_failed_any_job"
    /\ pc' = IF failed_any_job THEN "return"
             ELSE IF pipeline.status \notin {"success", "failed", "canceled"}
                  THEN "sleep_poll"
                  ELSE "refresh"
    /\ UNCHANGED <<THRESHOLD, locals, pipeline, jobs, idx, full_job, failed_any_job,
                   result, history>>

\* line 171: sleep(5)
SleepPoll ==
    /\ UNCHANGED notMonitor
    /\ pc = "sleep_poll"
    /\ pc' = "refresh"
    /\ pausedSinceRefresh' = TRUE
    /\ UNCHANGED <<THRESHOLD, locals, pipeline, jobs, idx, full_job, failed_any_job,
                   result, nRefresh, nListJobs, nRetry, observed, raised, retriesSinceRefresh>>

\* lines 177-193: the result after the while loop
ReturnResult ==
    /\ UNCHANGED notMonitor
    /\ pc = "return"
    /\ result' = FinalResult
    /\ pc' = "done"
    /\ UNCHANGED <<THRESHOLD, locals, pipeline, jobs, idx, full_job, failed_any_job,
                   history>>

Next ==
    \/ GetProject
    \/ ListPipelines
    \/ RefreshPipeline
    \/ ListJobs
    \/ GetJob
    \/ RefreshJob
    \/ RetryJob
    \/ SleepAfterRetry
    \/ CheckFailedAnyJob
    \/ SleepPoll
    \/ ReturnResult

Spec == Init /\ [][Next]_vars

TypeOK ==
    /\ THRESHOLD \in Thresholds
    /\ success \in BOOLEAN
    /\ retries \in Nat
    /\ DOMAIN job_failures_by_name \subseteq JobNames
    /\ result # None => pc = "done"

(* ---------------- monitor_repository at rest ---------------- *)

\* no run of monitor_repository is under way; THRESHOLD has its default (line 33)
MonitorIdle ==
    /\ THRESHOLD = 3
    /\ pc = "idle"
    /\ success = FALSE
    /\ failed_pipelines = <<>>
    /\ job_failures_by_name = <<>>
    /\ retries = 0
    /\ pipeline = None
    /\ jobs = <<>>
    /\ idx = 0
    /\ full_job = None
    /\ failed_any_job = FALSE
    /\ result = None
    /\ nRefresh = 0
    /\ nListJobs = 0
    /\ nRetry = 0
    /\ observed = [n \in JobNames |-> 0]
    /\ raised = <<>>
    /\ retriesSinceRefresh = 0
    /\ pausedSinceRefresh = FALSE

(* ---------------- load_repositories: monitor_pipeline.py lines 49-61 ---------------- *)

\* Text is a sequence of characters.  "u" stands for the scheme and host of the
\* base URL, "a" and "b" for any other characters, " " for any whitespace.
DotGit == <<".", "g", "i", "t">>
Whitespace == {" "}

\* the values of GITLAB_URL: without and with a trailing slash
BaseUrls == {<<"u">>, <<"u", "/">>}

\* the pieces a line of the file is put together from
Chunks == {<<"u", "/">>, DotGit, <<"a">>, <<"/">>, <<" ">>}

RECURSIVE Flatten(_)
Flatten(ss) == IF ss = <<>> THEN <<>> ELSE Head(ss) \o Flatten(Tail(ss))

\* the lines of the file: up to MaxChunks pieces each
Lines == {Flatten(cs) : cs \in UNION {[1 .. n -> Chunks] : n \in 0 .. MaxChunks}}

\* the files: up to MaxLines lines
LoaderFiles == UNION {[1 .. n -> Lines] : n \in 0 .. MaxLines}

\* str.lstrip(), str.rstrip() and str.strip()
RECURSIVE LStrip(_)
LStrip(s) == IF s # <<>> /\ Head(s) \in Whitespace THEN LStrip(Tail(s)) ELSE s

RECURSIVE RStrip(_)
RStrip(s) ==
    IF s # <<>> /\ s[Len(s)] \in Whitespace THEN RStrip(SubSeq(s, 1, Len(s) - 1)) ELSE s

Strip(s) == RStrip(LStrip(s))

\* str.rstrip('/')
RECURSIVE RStripSlash(_)
RStripSlash(s) ==
    IF s # <<>> /\ s[Len(s)] = "/" THEN RStripSlash(SubSeq(s, 1, Len(s) - 1)) ELSE s

StartsWith(s, pat) == Len(pat) <= Len(s) /\ SubSeq(s, 1, Len(pat)) = pat
EndsWith(s, pat) == Len(pat) <= Len(s) /\ SubSeq(s, Len(s) - Len(pat) + 1, Len(s)) = pat

\* str.replace(pat, ""): every occurrence of pat, found from left to right, is removed
RECURSIVE Remove(_, _)
Remove(s, pat) ==
    IF pat = <<>> \/ Len(s) < Len(pat) THEN s
    ELSE IF StartsWith(s, pat) THEN Remove(SubSeq(s, Len(pat) + 1, Len(s)), pat)
    ELSE <<Head(s)>> \o Remove(Tail(s), pat)

\* f"{GITLAB_URL.rstrip('/')}/"
UrlPrefix(url) == RStripSlash(url) \o <<"/">>

\* line 56: line.strip().replace(f"{GITLAB_URL.rstrip('/')}/", "").replace(".git", "")
NormalizeLine(line, url) == Remove(Remove(Strip(line), UrlPrefix(url)), DotGit)

\* lines 55-59: the list comprehension over the lines of the file
RECURSIVE LoadRepositories(_, _)
LoadRepositories(lines, url) ==
    IF lines = <<>> THEN <<>>
    ELSE (IF Strip(Head(lines)) # <<>> THEN <<NormalizeLine(Head(lines), url)>> ELSE <<>>)
         \o LoadRepositories(Tail(lines), url)

\* the call starts on a file and a base URL
LoaderInit ==
    /\ loader_url \in BaseUrls
    /\ loader_file \in LoaderFiles
    /\ loader_i = 1
    /\ loader_out = <<>>
    /\ loader_pc = "reading"
    /\ MonitorIdle
    /\ StopIdle
    /\ VaultIdle
    /\ MainIdle
    /\ RunIdle
    /\ BatchIdle

\* lines 55-59: one line of the file passes through the comprehension
LoaderReadLine ==
    /\ loader_pc = "reading"
    /\ loader_i <= Len(loader_file)
    /\ loader_out' = IF Strip(loader_file[loader_i]) # <<>>
                     THEN Append(loader_out, NormalizeLine(loader_file[loader_i], loader_url))
                     ELSE loader_out
    /\ loader_i' = loader_i + 1
    /\ UNCHANGED <<loader_url, loader_file, loader_pc>>
    /\ UNCHANGED notLoader

\* lines 60-61: return repositories
LoaderReturn ==
    /\ loader_pc = "reading"
    /\ loader_i > Len(loader_file)
    /\ loader_pc' = "returned"
    /\ UNCHANGED <<loader_url, loader_file, loader_i, loader_out>>
    /\ UNCHANGED notLoader

LoaderNext == LoaderReadLine \/ LoaderReturn

LoaderSpec == LoaderInit /\ [][LoaderNext]_loaderVars

(* ---------------- stop_pipelines: stop_pipeline_runs.py lines 113-223 ---------------- *)

\* times are whole days, from 0 to the moment of the call
Times == 0 .. StopNow
\* datetime.isoformat() of a time, and an ISO8601 text given by the user
Iso(t) == [iso |-> t]
\* "--after X" / "--before X" with X a number of days
Days(x) == [days |-> x]

\* the values of the options --after and --before
TimeArgs == {Days(x) : x \in 1 .. StopNow - 1} \cup {Iso(t) : t \in 1 .. StopNow - 1}

\* the branches; the pipelines of a repository alternate between them
StopRefs == <<"main", "dev">>
StopStatuses == {"running", "pending", "success"}

\* a pipeline of the server
StopPipelineValues == [updated_at : Times, status : StopStatuses]
\* the pipelines of a repository, with their ids
ServerPipelineLists ==
    UNION {[1 .. n -> StopPipelineValues] : n \in 0 .. MaxStopPipelines}
WithIds(ps, o) ==
    [k \in DOMAIN ps |-> [id |-> k, updated_at |-> ps[k].updated_at,
                          status |-> ps[k].status,
                          ref |-> StopRefs[((k + o) % Len(StopRefs)) + 1]]]

\* GET /projects/:id/pipelines with updated_after and updated_before: the
\* pipelines updated after the one and before the other; a None is no filter
ServerList(ps, a, b) ==
    SelectSeq(ps, LAMBDA q : /\ (a # None => q.updated_at > a.iso)
                             /\ (b # None => q.updated_at < b.iso))

\* lines 134-143 and 145-156: float(x) days before utcnow(), or the text as given
ReferenceTime(arg) ==
    IF "days" \in DOMAIN arg THEN Iso(StopNow - arg.days) ELSE arg

\* the call starts: main() passes one of --after, --before and --all (lines 53, 264)
StopInit ==
    /\ \E a \in TimeArgs \cup {None}, b \in TimeArgs \cup {None}, al \in BOOLEAN :
          /\ (a # None /\ b = None /\ ~al) \/ (a = None /\ b # None /\ ~al)
                \/ (a = None /\ b = None /\ al)
          /\ after = a
          /\ before = b
          /\ all_pipelines = al
    /\ branch_name_filter \in {<<>>, <<"main">>}
    /\ stop_repositories \in {<<"org/app">>, <<"org/app", "org/lib">>}
    /\ server_pipelines \in {WithIds(ps, o) : ps \in ServerPipelineLists, o \in 0 .. 1}
    /\ after_iso = None
    /\ before_iso = None
    /\ stopped_pipelines = <<>>
    /\ pipelines = <<>>
    /\ detected_count = 0
    /\ stopped_count = 0
    /\ skipped_count = 0
    /\ stop_r = 0
    /\ stop_k = 0
    /\ stop_pc = "parse"
    /\ cancel_calls = <<>>
    /\ cancel_errors = 0
    /\ MonitorIdle
    /\ LoaderIdle
    /\ VaultIdle
    /\ MainIdle
    /\ RunIdle
    /\ BatchIdle

stopArgs == <<after, before, all_pipelines, branch_name_filter, stop_repositories,
              server_pipelines>>
stopCounts == <<detected_count, stopped_count, skipped_count>>

\* lines 128-163: the date filters
StopParse ==
    /\ stop_pc = "parse"
    /\ after_iso' = IF after # None THEN ReferenceTime(after) ELSE None
    /\ before_iso' = IF before # None THEN ReferenceTime(before) ELSE None
    /\ stop_r' = 1
    /\ stop_pc' = "repo"
    /\ UNCHANGED <<stopArgs, stopCounts, stopped_pipelines, pipelines, stop_k,
                   cancel_calls, cancel_errors>>
    /\ UNCHANGED notStop

\* lines 165-169: project = gl.projects.get(repo_path); an exception is logged
\* by line 221 and the loop goes on with the next repository
StopGetProject ==
    /\ stop_pc = "repo"
    /\ stop_r <= Len(stop_repositories)
    /\ \/ /\ stop_pc' = "list"
          /\ UNCHANGED stop_r
       \/ /\ stop_r' = stop_r + 1
          /\ UNCHANGED stop_pc
    /\ UNCHANGED <<stopArgs, after_iso, before_iso, stopCounts, stopped_pipelines,
                   pipelines, stop_k, cancel_calls, cancel_errors>>
    /\ UNCHANGED notStop

\* lines 172-188: project.pipelines.list(...), the counters and the entry of the dict
StopListPipelines ==
    /\ stop_pc = "list"
    /\ \/ /\ pipelines' = IF all_pipelines THEN server_pipelines
                          ELSE ServerList(server_pipelines, after_iso, before_iso)
          /\ detected_count' = 0
          /\ stopped_count' = 0
          /\ skipped_count' = 0
          /\ stopped_pipelines' =
                [n \in DOMAIN stopped_pipelines \cup {stop_repositories[stop_r]} |->
                    IF n = stop_repositories[stop_r]
                    THEN [detected |-> 0, stopped |-> 0, skipped |-> 0, pipelines |-> <<>>]
                    ELSE stopped_pipelines[n]]
          /\ stop_k' = 1
          /\ stop_pc' = "pipeline"
          /\ cancel_errors' = 0
          /\ UNCHANGED stop_r
       \/ /\ stop_r' = stop_r + 1
          /\ stop_pc' = "repo"
          /\ UNCHANGED <<pipelines, stopCounts, stopped_pipelines, stop_k, cancel_errors>>
    /\ UNCHANGED <<stopArgs, after_iso, before_iso, cancel_calls>>
    /\ UNCHANGED notStop

\* line 194: branch_name_filter and pipeline.ref not in branch_name_filter
FilteredOut(ref) ==
    branch_name_filter # <<>> /\ \A i \in DOMAIN branch_name_filter : branch_name_filter[i] # ref

\* variant of Cancellable: a finished pipeline is cancelled too
Cancellable_AlsoSuccess(status) == status \in {"running", "pending", "success"}

\* line 199: pipeline.status in ['running', 'pending']
Cancellable(status) == status \in {"running", "pending"}

\* lines 190-209: one pipeline of the list
StopExaminePipeline ==
    /\ stop_pc = "pipeline"
    /\ stop_k <= Len(pipelines)
    /\ LET pl == pipelines[stop_k]
           repo == stop_repositories[stop_r]
       IN  /\ detected_count' = detected_count + 1
           /\ IF FilteredOut(pl.ref)
              THEN /\ skipped_count' = skipped_count + 1
                   /\ UNCHANGED <<stopped_count, stopped_pipelines, cancel_calls, cancel_errors>>
              ELSE IF Cancellable(pl.status)
              THEN /\ cancel_calls' = Append(cancel_calls, pl)
                   /\ \/ /\ stopped_pipelines' =
                               [stopped_pipelines EXCEPT ![repo].pipelines = Append(@, pl)]
                         /\ stopped_count' = stopped_count + 1
                         /\ UNCHANGED cancel_errors
                      \/ /\ cancel_errors' = cancel_errors + 1
                         /\ UNCHANGED <<stopped_count, stopped_pipelines>>
                   /\ UNCHANGED skipped_count
              ELSE /\ skipped_count' = skipped_count + 1
                   /\ UNCHANGED <<stopped_count, stopped_pipelines, cancel_calls, cancel_errors>>
    /\ stop_k' = stop_k + 1
    /\ UNCHANGED <<stopArgs, after_iso, before_iso, pipelines, stop_r, stop_pc>>
    /\ UNCHANGED notStop

\* lines 211-218: the final counts of the repository
StopUpdateCounts ==
    /\ stop_pc = "pipeline"
    /\ stop_k > Len(pipelines)
    /\ stopped_pipelines' =
          [stopped_pipelines EXCEPT ![stop_repositories[stop_r]] =
              [@ EXCEPT !.detected = detected_count, !.stopped = stopped_count,
                        !.skipped = skipped_count]]
    /\ stop_r' = stop_r + 1
    /\ stop_pc' = "repo"
    /\ UNCHANGED <<stopArgs, after_iso, before_iso, pipelines, stopCounts, stop_k,
                   cancel_calls, cancel_errors>>
    /\ UNCHANGED notStop

\* line 223: return stopped_pipelines
StopReturn ==
    /\ stop_pc = "repo"
    /\ stop_r > Len(stop_repositories)
    /\ stop_pc' = "returned"
    /\ UNCHANGED <<stopArgs, after_iso, before_iso, pipelines, stopCounts,
                   stopped_pipelines, stop_r, stop_k, cancel_calls, cancel_errors>>
    /\ UNCHANGED notStop

StopNext ==
    \/ StopParse
    \/ StopGetProject
    \/ StopListPipelines
    \/ StopExaminePipeline
    \/ StopUpdateCounts
    \/ StopReturn

StopSpec == StopInit /\ [][StopNext]_stopVars

(* ---------------- export_vault.py ---------------- *)

\* A path is the sequence of its names: "a/b" is <<"a", "b">> and "" is <<>>.
\* A key of a listing is [name, dir]: "a/" is a directory, "a" a secret.
VaultNames == <<"a", "b">>
VaultNameSet == {VaultNames[i] : i \in DOMAIN VaultNames}
VaultPaths == UNION {[1 .. n -> VaultNameSet] : n \in 1 .. MaxVaultDepth}

IsPrefix(p, q) == Len(p) <= Len(q) /\ SubSeq(q, 1, Len(p)) = p
IsProperPrefix(p, q) == Len(p) < Len(q) /\ IsPrefix(p, q)

\* The stores: secrets is the set of paths that hold a secret, unreadable those
\* of them read_secret_version answers Forbidden for, blank those whose data
\* is {}, denied the directories list_secrets answers Forbidden for.
\* the sets of at most n elements of S
RECURSIVE SetsUpTo(_, _)
SetsUpTo(S, n) ==
    IF n = 0 THEN {{}}
    ELSE LET smaller == SetsUpTo(S, n - 1)
         IN  smaller \cup {x \cup {e} : x \in smaller, e \in S}
Directories(ss) == {d \in VaultPaths : \E q \in ss : IsProperPrefix(d, q)}
\* the data of the secret at a path: the dict {"value": <path>}
SecretData(path) == [value |-> path]

\* Python's truth value of a dict or None
Truthy(x) == x # <<>>

\* the keys Vault lists under a path, sorted: "a", "a/", "b", "b/"
RECURSIVE KeysFrom(_, _, _)
KeysFrom(st, path, i) ==
    IF i > Len(VaultNames) THEN <<>>
    ELSE LET child == Append(path, VaultNames[i])
         IN  (IF child \in st.secrets
              THEN <<[name |-> VaultNames[i], dir |-> FALSE]>> ELSE <<>>)
             \o (IF \E q \in st.secrets : IsProperPrefix(child, q)
                 THEN <<[name |-> VaultNames[i], dir |-> TRUE]>> ELSE <<>>)
             \o KeysFrom(st, path, i + 1)

\* lines 72-85: list_secrets; [denied |-> TRUE] is the None of line 80, an
\* InvalidPath (nothing under the path) is the [] of line 82
list_secrets(st, path) ==
    IF path \in st.denied THEN [denied |-> TRUE]
    ELSE [keys |-> KeysFrom(st, path, 1)]

\* lines 87-99: get_secret; None for InvalidPath and Forbidden
get_secret(st, path) ==
    IF path \in st.secrets /\ path \notin st.unreadable
    THEN (IF path \in st.blank THEN <<>> ELSE SecretData(path))
    ELSE None

\* structure[key] = value
DictSet(d, k, v) == [x \in DOMAIN d \cup {k} |-> IF x = k THEN v ELSE d[x]]

\* lines 101-134: export_namespace, and its for loop from the key at index i on
RECURSIVE export_namespace(_, _)
RECURSIVE ExportKeys(_, _, _, _, _, _)
ExportKeys(st, base_path, keys, i, structure, has_valid_secret) ==
    IF i > Len(keys)
    THEN \* lines 126-134
         LET secret_data == IF base_path # <<>> THEN get_secret(st, base_path) ELSE None
         IN  IF base_path # <<>> /\ Truthy(secret_data)
             THEN DictSet(structure, "_root", secret_data)
             ELSE IF has_valid_secret THEN structure ELSE None
    ELSE LET key == keys[i]
             full_path == Append(base_path, key.name)
         IN  IF key.dir
             THEN \* lines 114-118
                  LET nested_structure == export_namespace(st, full_path)
                  IN  ExportKeys(st, base_path, keys, i + 1,
                                 IF Truthy(nested_structure)
                                 THEN DictSet(structure, key.name, nested_structure)
                                 ELSE structure,
                                 has_valid_secret)
             ELSE \* lines 119-124
                  LET secret_data == get_secret(st, full_path)
                  IN  ExportKeys(st, base_path, keys, i + 1,
                                 IF Truthy(secret_data)
                                 THEN DictSet(structure, key.name, secret_data)
                                 ELSE structure,
                                 has_valid_secret \/ Truthy(secret_data))

export_namespace(st, base_path) ==
    LET paths == list_secrets(st, base_path)
    IN  IF "denied" \in DOMAIN paths THEN None
        ELSE ExportKeys(st, base_path, paths.keys, 1, <<>>, FALSE)

\* lines 47-69: validate_paths for one path: it is kept when the read succeeds
\* or is Forbidden, dropped when the path holds no secret
ValidPath(st, path) == path \in st.secrets

\* the run starts on a store and a path to scan
VaultInit ==
    /\ \E ss \in SetsUpTo(VaultPaths, MaxSecrets) :
          \E un \in SUBSET ss :
             \E bl \in SUBSET (ss \ un), dn \in {{}} \cup {{d} : d \in Directories(ss)} :
                vault_store = [secrets |-> ss, unreadable |-> un, blank |-> bl,
                               denied |-> dn]
    /\ vault_base \in {<<>>, <<"a">>}
    /\ vault_result = None
    /\ root_structure = <<>>
    /\ vault_pc = "call"
    /\ MonitorIdle
    /\ LoaderIdle
    /\ StopIdle
    /\ MainIdle
    /\ RunIdle
    /\ BatchIdle

\* lines 101-134: a call export_namespace(client, base_path)
ExportNamespaceCall ==
    /\ vault_pc = "call"
    /\ vault_result' = export_namespace(vault_store, vault_base)
    /\ vault_pc' = "returned"
    /\ UNCHANGED <<vault_store, vault_base, root_structure>>
    /\ UNCHANGED notVault

\* lines 136-162: export_selected_paths with vault_paths.txt naming the one path
ExportSelectedPaths ==
    /\ vault_pc = "call"
    /\ vault_base # <<>>
    /\ IF ValidPath(vault_store, vault_base)
       THEN /\ vault_result' = export_namespace(vault_store, vault_base)
            /\ root_structure' = IF Truthy(vault_result')
                                 THEN DictSet(<<>>, vault_base, vault_result')
                                 ELSE <<>>
       ELSE UNCHANGED <<vault_result, root_structure>>
    /\ vault_pc' = "exported"
    /\ UNCHANGED <<vault_store, vault_base>>
    /\ UNCHANGED notVault

VaultNext == ExportNamespaceCall \/ ExportSelectedPaths

VaultSpec == VaultInit /\ [][VaultNext]_vaultVars

(* ---------------- monitor_pipeline.py run as a script ---------------- *)

\* what GitLab answers the threads of this run
ThreadStatuses == {"running", "success", "failed"}
ThreadJobLists == {<<>>, <<1>>}
ThreadJobStatuses == {"failed", "success"}
ThreadError == "Connection timed out"
ThreadPipeline == [id |-> 101, status |-> "running"]

\* an answer of a GitLab call: a value, or an exception raised by the call
Answer(v) == [kind |-> "ok", value |-> v]
Raise == [kind |-> "raise", e |-> ThreadError]

\* lines 78-90: the frame of a call monitor_repository(repo_path, gl); polls
\* counts the calls of pipeline.refresh()
NewFrame(repo) ==
    [pc |-> "get_project", repo_path |-> repo, success |-> FALSE,
     failed_pipelines |-> <<>>, job_failures_by_name |-> <<>>, retries |-> 0,
     pipeline |-> None, jobs |-> <<>>, idx |-> 0, failed_any_job |-> FALSE,
     polls |-> 0, result |-> None]

\* the dict monitor_repository returns
ThreadResult(repo, s, fp, url, r) ==
    [repo |-> repo, success |-> s, failed_pipelines |-> fp,
     last_pipeline_url |-> url, retries |-> r]

\* lines 195-203: the handler of the outer try
Failed(w, e) ==
    [w EXCEPT !.pc = "done",
              !.result = ThreadResult(w.repo_path, FALSE, <<ExceptionReason(e)>>, None, 0)]

\* variant of Returned: the frame goes back to pipeline.refresh() instead of returning
Returned_KeepsPolling(w, g) == [w EXCEPT !.pc = "refresh"]

\* lines 177-193: the result after the while loop; g holds the globals
\* GITLAB_URL and THRESHOLD
Returned(w, g) ==
    [w EXCEPT !.pc = "done",
              !.result =
                 IF w.success
                 THEN ThreadResult(w.repo_path, TRUE, <<>>,
                                   <<Text(g.GITLAB_URL), Text("/"), Text(w.repo_path),
                                     Text("/pipelines/"), Str(w.pipeline.id)>>,
                                   w.retries)
                 ELSE ThreadResult(w.repo_path, FALSE,
                                   IF w.failed_pipelines # <<>> THEN w.failed_pipelines
                                   ELSE <<DidNotSucceedReason(w.pipeline.id)>>,
                                   None, w.retries)]

\* lines 162-175: after the for loop, leave the while loop or poll again
AfterFor(w, g) == IF w.failed_any_job THEN Returned(w, g) ELSE [w EXCEPT !.pc = "refresh"]

\* line 119: the for loop takes the job at index i or ends
ForNext(w, i, g) ==
    IF i <= Len(w.jobs) THEN [w EXCEPT !.idx = i, !.pc = "job_get"]
    ELSE AfterFor([w EXCEPT !.idx = i], g)

\* lines 128-160: the status of the refreshed job decides
JobStatusSeen(w, status, g) ==
    LET job_name == JobNameOf(w.jobs[w.idx])
        d == SetDefault(w.job_failures_by_name, job_name)
    IN  IF IsFailedStatus(status)
        THEN IF BelowThreshold(d[job_name], g.THRESHOLD)
             THEN [w EXCEPT !.job_failures_by_name = [d EXCEPT ![job_name] = @ + 1],
                            !.retries = RetriesAfter(w.retries),
                            !.pc = "retry"]
             ELSE AfterFor([w EXCEPT !.job_failures_by_name = d,
                                     !.failed_pipelines =
                                        Append(w.failed_pipelines,
                                               ThresholdReason(w.pipeline.id, job_name,
                                                               g.THRESHOLD)),
                                     !.failed_any_job = TRUE], g)
        ELSE ForNext(w, w.idx + 1, g)

\* lines 91-193: monitor_repository from one GitLab call to the next, on the
\* answer r of the call the frame w waits for
run(w, r, g) ==
    CASE w.pc = "get_project" ->
            IF r.kind = "raise" THEN Failed(w, r.e)
            ELSE [w EXCEPT !.pc = "list_pipelines"]
      [] w.pc = "list_pipelines" ->
            IF r.kind = "raise" THEN Failed(w, r.e)
            ELSE IF r.value = <<>>
                 THEN [w EXCEPT !.pc = "done",
                                !.result = ThreadResult(w.repo_path, FALSE,
                                                        <<NoPipelineReason>>, None, 0)]
                 ELSE [w EXCEPT !.pipeline = r.value[1], !.pc = "refresh"]
      [] w.pc = "refresh" ->
            IF r.kind = "raise" THEN Failed(w, r.e)
            ELSE [w EXCEPT !.pipeline = [w.pipeline EXCEPT !.status = r.value],
                           !.polls = w.polls + 1,
                           !.pc = "list_jobs"]
      [] w.pc = "list_jobs" ->
            IF r.kind = "raise" THEN Failed(w, r.e)
            ELSE IF w.pipeline.status = "success"
                 THEN Returned([w EXCEPT !.jobs = r.value, !.success = TRUE], g)
                 ELSE ForNext([w EXCEPT !.jobs = r.value, !.failed_any_job = FALSE], 1, g)
      [] w.pc = "job_get" ->
            IF r.kind = "raise" THEN AfterFor([w EXCEPT !.failed_any_job = TRUE], g)
            ELSE [w EXCEPT !.pc = "job_refresh"]
      [] w.pc = "job_refresh" ->
            IF r.kind = "raise" THEN Failed(w, r.e)
            ELSE JobStatusSeen(w, r.value, g)
      [] w.pc = "retry" ->
            IF r.kind = "raise" THEN AfterFor([w EXCEPT !.failed_any_job = TRUE], g)
            ELSE ForNext(w, w.idx + 1, g)

\* the answers GitLab can give to the call the frame waits for
Answers(w) ==
    CASE w.pc = "get_project" -> {Answer(<<>>), Raise}
      [] w.pc = "list_pipelines" -> {Answer(<<>>), Answer(<<ThreadPipeline>>), Raise}
      [] w.pc = "refresh" -> {Answer(st) : st \in ThreadStatuses} \cup {Raise}
      [] w.pc = "list_jobs" -> {Answer(js) : js \in ThreadJobLists} \cup {Raise}
      [] w.pc = "job_get" -> {Answer(<<>>), Raise}
      [] w.pc = "job_refresh" -> {Answer(st) : st \in ThreadJobStatuses} \cup {Raise}
      [] w.pc = "retry" -> {Answer(<<>>), Raise}
      [] OTHER -> {}

\* the decimal digits int() reads
DigitChars == <<"0", "1", "2", "3", "4", "5", "6", "7", "8", "9">>
IsDigit(c) == \E d \in DOMAIN DigitChars : DigitChars[d] = c
DigitValue(c) == (CHOOSE d \in DOMAIN DigitChars : DigitChars[d] = c) - 1
\* int(text) raises ValueError unless the text is a number
IsInt(text) == text # <<>> /\ \A i \in DOMAIN text : IsDigit(text[i])
RECURSIVE IntOf(_)
IntOf(text) ==
    IF text = <<>> THEN 0
    ELSE 10 * IntOf(SubSeq(text, 1, Len(text) - 1)) + DigitValue(text[Len(text)])

\* the files of repositories of the runs: no line, one line, two lines around a blank one
RepoLineA == <<"u", "/", "a">> \o DotGit
RepoLineB == <<"u", "/", "b">>
MainFiles == {<<>>, <<RepoLineA>>, <<RepoLineA, <<" ">>, RepoLineB>>}

\* the environment a run starts in
MainInit ==
    /\ environ \in [GITLAB_URL : {None, <<"u">>}, PRIVATE_TOKEN : {None, <<"t">>},
                    THRESHOLD : {None, <<"1">>, <<"x">>}]
    /\ repos_file \in {[exists |-> FALSE]} \cup {[exists |-> TRUE, lines |-> f] : f \in MainFiles}
    /\ gitlab_up \in BOOLEAN
    /\ main_pc = "config"
    /\ run_threshold = 3
    /\ repositories = <<>>
    /\ threads = <<>>
    /\ workers = <<>>
    /\ main_k = 0
    /\ results = <<>>
    /\ summary = None
    /\ exit_code = <<>>
    /\ alone = <<>>
    /\ finished = <<>>
    /\ MonitorIdle
    /\ LoaderIdle
    /\ StopIdle
    /\ VaultIdle
    /\ RunIdle
    /\ BatchIdle

\* exit(1), and the exit of the interpreter on an uncaught exception
Exit(code) ==
    /\ exit_code' = <<code>>
    /\ main_pc' = "exited"

\* lines 29-46: the configuration is read and validated when the module is loaded
ModuleLevel ==
    /\ main_pc = "config"
    /\ IF environ.THRESHOLD # None /\ ~IsInt(environ.THRESHOLD)
       THEN /\ Exit(1)
            /\ UNCHANGED run_threshold
       ELSE /\ run_threshold' = IF environ.THRESHOLD = None THEN 3
                                ELSE IntOf(environ.THRESHOLD)
            /\ IF environ.GITLAB_URL = <<>> \/ environ.PRIVATE_TOKEN = <<>>
                  \/ ~repos_file.exists
               THEN Exit(1)
               ELSE main_pc' = "load" /\ UNCHANGED exit_code
    /\ UNCHANGED <<environ, repos_file, gitlab_up, repositories, threads, workers, main_k,
                   results, summary, alone, finished>>
    /\ UNCHANGED notMain

\* line 264: repositories = load_repositories(REPOS_FILE)
MainLoad ==
    /\ main_pc = "load"
    /\ repositories' = LoadRepositories(repos_file.lines, environ.GITLAB_URL)
    /\ main_pc' = "init_client"
    /\ UNCHANGED <<environ, repos_file, gitlab_up, run_threshold, threads, workers, main_k,
                   results, summary, exit_code, alone, finished>>
    /\ UNCHANGED notMain

\* lines 265 and 64-75: initialize_gitlab_client; a failure is logged and ends the run
InitClient ==
    /\ main_pc = "init_client"
    /\ IF gitlab_up
       THEN /\ main_pc' = IF repositories = <<>> THEN "summary" ELSE "start"
            /\ main_k' = 1
            /\ UNCHANGED exit_code
       ELSE /\ Exit(1)
            /\ UNCHANGED main_k
    /\ UNCHANGED <<environ, repos_file, gitlab_up, run_threshold, repositories, threads,
                   workers, results, summary, alone, finished>>
    /\ UNCHANGED notMain

\* lines 271-274: one MonitorThread is created and started
StartThread ==
    /\ main_pc = "start"
    /\ threads' = Append(threads, [repo_path |-> repositories[main_k], result |-> None,
                                   state |-> "started"])
    /\ workers' = Append(workers, NewFrame(repositories[main_k]))
    /\ alone' = Append(alone, NewFrame(repositories[main_k]))
    /\ IF main_k < Len(repositories)
       THEN main_k' = main_k + 1 /\ UNCHANGED main_pc
       ELSE main_k' = 1 /\ main_pc' = "join"
    /\ UNCHANGED <<environ, repos_file, gitlab_up, run_threshold, repositories, results,
                   summary, exit_code, finished>>
    /\ UNCHANGED notMain

\* the globals monitor_repository reads
Globals == [GITLAB_URL |-> environ.GITLAB_URL, THRESHOLD |-> run_threshold]

\* variant of ThreadStep: job_failures_by_name is one dict all threads share
ThreadStep_SharedTally(i) ==
    /\ threads[i].state = "started"
    /\ workers[i].pc = "refresh" => workers[i].polls < MaxThreadPolls
    /\ \E r \in Answers(workers[i]) :
          LET w == run([workers[i] EXCEPT !.job_failures_by_name =
                                              workers[1].job_failures_by_name],
                       r, Globals)
          IN  /\ workers' = [j \in DOMAIN workers |->
                                IF j = i THEN w
                                ELSE [workers[j] EXCEPT !.job_failures_by_name =
                                                            w.job_failures_by_name]]
              /\ alone' = [alone EXCEPT ![i] = run(alone[i], r, Globals)]
    /\ UNCHANGED <<environ, repos_file, gitlab_up, main_pc, run_threshold, repositories,
                   threads, main_k, results, summary, exit_code, finished>>
    /\ UNCHANGED notMain

\* line 217: thread i runs monitor_repository up to its next GitLab call
ThreadStep(i) ==
    /\ threads[i].state = "started"
    /\ workers[i].pc = "refresh" => workers[i].polls < MaxThreadPolls
    /\ \E r \in Answers(workers[i]) :
          /\ workers' = [workers EXCEPT ![i] = run(workers[i], r, Globals)]
          /\ alone' = [alone EXCEPT ![i] = run(alone[i], r, Globals)]
    /\ UNCHANGED <<environ, repos_file, gitlab_up, main_pc, run_threshold, repositories,
                   threads, main_k, results, summary, exit_code, finished>>
    /\ UNCHANGED notMain

\* line 217: self.result is assigned what monitor_repository returned, and the
\* thread terminates
ThreadExit(i) ==
    /\ threads[i].state = "started"
    /\ workers[i].pc = "done"
    /\ threads' = [threads EXCEPT ![i] = [@ EXCEPT !.result = workers[i].result,
                                                   !.state = "terminated"]]
    /\ finished' = Append(finished, i)
    /\ UNCHANGED <<environ, repos_file, gitlab_up, main_pc, run_threshold, repositories,
                   workers, main_k, results, summary, exit_code, alone>>
    /\ UNCHANGED notMain

\* variant of JoinThread: the results are collected in the order the threads terminated
JoinThread_CompletionOrder ==
    /\ main_pc = "join"
    /\ main_k <= Len(finished)
    /\ results' = Append(results, threads[finished[main_k]].result)
    /\ IF main_k < Len(threads)
       THEN main_k' = main_k + 1 /\ UNCHANGED main_pc
       ELSE main_pc' = "summary" /\ UNCHANGED main_k
    /\ UNCHANGED <<environ, repos_file, gitlab_up, run_threshold, repositories, threads,
                   workers, summary, exit_code, alone, finished>>
    /\ UNCHANGED notMain

\* variant of JoinThread: thread.result is read without thread.join()
JoinThread_NoWait ==
    /\ main_pc = "join"
    /\ results' = Append(results, threads[main_k].result)
    /\ IF main_k < Len(threads)
       THEN main_k' = main_k + 1 /\ UNCHANGED main_pc
       ELSE main_pc' = "summary" /\ UNCHANGED main_k
    /\ UNCHANGED <<environ, repos_file, gitlab_up, run_threshold, repositories, threads,
                   workers, summary, exit_code, alone, finished>>
    /\ UNCHANGED notMain

\* lines 277-279: thread.join() returns once the thread has terminated, then
\* results.append(thread.result)
JoinThread ==
    /\ main_pc = "join"
    /\ threads[main_k].state = "terminated"
    /\ results' = Append(results, threads[main_k].result)
    /\ IF main_k < Len(threads)
       THEN main_k' = main_k + 1 /\ UNCHANGED main_pc
       ELSE main_pc' = "summary" /\ UNCHANGED main_k
    /\ UNCHANGED <<environ, repos_file, gitlab_up, run_threshold, repositories, threads,
                   workers, summary, exit_code, alone, finished>>
    /\ UNCHANGED notMain

\* lines 236-246: the for loop of generate_summary from the result at index i on
RECURSIVE Summarize(_, _, _)
Summarize(rs, i, acc) ==
    IF i > Len(rs) THEN acc
    ELSE LET res == rs[i]
             Tagged(k) == <<Text(res.repo), Text(" - ")>> \o res.failed_pipelines[k]
         IN  Summarize(rs, i + 1,
                IF res.success
                THEN [acc EXCEPT !.passed_repos = @ + 1]
                ELSE [acc EXCEPT !.failed_repos = @ + 1,
                                 !.failed_pipelines_list =
                                    @ \o [k \in 1 .. Len(res.failed_pipelines) |-> Tagged(k)]])

\* variant of generate_summary: every repository is counted as passed
generate_summary_AllPassed(rs) ==
    [total_repos |-> Len(rs), passed_repos |-> Len(rs), failed_repos |-> 0,
     failed_pipelines_list |-> <<>>]

\* lines 220-259: generate_summary
generate_summary(rs) ==
    Summarize(rs, 1, [total_repos |-> Len(rs), passed_repos |-> 0, failed_repos |-> 0,
                      failed_pipelines_list |-> <<>>])

\* line 282: generate_summary(results)
GenerateSummary ==
    /\ main_pc = "summary"
    /\ summary' = generate_summary(results)
    /\ main_pc' = "return"
    /\ UNCHANGED <<environ, repos_file, gitlab_up, run_threshold, repositories, threads,
                   workers, main_k, results, exit_code, alone, finished>>
    /\ UNCHANGED notMain

\* variant of MainReturn: a failed repository makes the exit code 1
MainReturn_FailsOnFailure ==
    /\ main_pc = "return"
    /\ Exit(IF summary.failed_repos > 0 THEN 1 ELSE 0)
    /\ UNCHANGED <<environ, repos_file, gitlab_up, run_threshold, repositories, threads,
                   workers, main_k, results, summary, alone, finished>>
    /\ UNCHANGED notMain

\* lines 284-285: main returns and the script ends
MainReturn ==
    /\ main_pc = "return"
    /\ Exit(0)
    /\ UNCHANGED <<environ, repos_file, gitlab_up, run_threshold, repositories, threads,
                   workers, main_k, results, summary, alone, finished>>
    /\ UNCHANGED notMain

MainNext ==
    \/ ModuleLevel
    \/ MainLoad
    \/ InitClient
    \/ StartThread
    \/ \E i \in DOMAIN threads : ThreadStep(i)
    \/ \E i \in DOMAIN threads : ThreadExit(i)
    \/ JoinThread
    \/ GenerateSummary
    \/ MainReturn

MainSpec == MainInit /\ [][MainNext]_mainVars

(* ---------------- runs in which every pipeline ends up successful ---------------- *)

\* the answers of a GitLab whose pipelines have status success from the
\* refresh number MaxThreadPolls on
SettlingAnswers(w) ==
    IF w.pc = "refresh" /\ w.polls >= MaxThreadPolls - 1
    THEN {Answer("success")}
    ELSE Answers(w)

\* line 217: thread i runs monitor_repository up to its next GitLab call
ThreadStepSettling(i) ==
    /\ i \in DOMAIN threads
    /\ threads[i].state = "started"
    /\ workers[i].pc = "refresh" => workers[i].polls < MaxThreadPolls
    /\ \E r \in SettlingAnswers(workers[i]) :
          /\ workers' = [workers EXCEPT ![i] = run(workers[i], r, Globals)]
          /\ alone' = [alone EXCEPT ![i] = run(alone[i], r, Globals)]
    /\ UNCHANGED <<environ, repos_file, gitlab_up, main_pc, run_threshold, repositories,
                   threads, main_k, results, summary, exit_code, finished>>
    /\ UNCHANGED notMain

\* the threads a run can have: one per line of the longest file of MainFiles
ThreadIds == 1 .. Cardinality({RepoLineA, RepoLineB})

SettlingNext ==
    \/ ModuleLevel
    \/ MainLoad
    \/ InitClient
    \/ StartThread
    \/ \E i \in ThreadIds : ThreadStepSettling(i)
    \/ \E i \in DOMAIN threads : ThreadExit(i)
    \/ JoinThread
    \/ GenerateSummary
    \/ MainReturn

\* the main thread and every started thread keep running: a GitLab call
\* returns or raises, sleep returns, the interpreter schedules every thread
SettlingSpec ==
    /\ MainInit
    /\ [][SettlingNext]_mainVars
    /\ WF_mainVars(ModuleLevel \/ MainLoad \/ InitClient \/ StartThread \/ JoinThread
                      \/ GenerateSummary \/ MainReturn)
    /\ \A i \in ThreadIds : WF_mainVars(ThreadStepSettling(i))
    /\ \A i \in ThreadIds : WF_mainVars(i \in DOMAIN threads /\ ThreadExit(i))

(* ---------------- run_pipelines.py: monitor_pipelines, lines 136-187 ---------------- *)

\* the statuses project.pipelines.get answers
RunStatuses == {"running", "manual", "success", "failed", "skipped"}
\* line 157: the statuses the loop treats as final
RunFinal == {"success", "failed", "canceled", "skipped", "manual"}

\* line 124: the entry of successful_repos for the k-th triggered pipeline;
\* GitLab numbers the pipelines of an instance, so the ids differ
TriggeredRepo(k) == [repo_url |-> k, pipeline_id |-> 100 + k]

\* line 138: {repo['pipeline_id']: repo for repo in successful_repos}
RECURSIVE DictByPipelineId(_)
DictByPipelineId(repos) ==
    IF repos = <<>> THEN <<>>
    ELSE LET rest == DictByPipelineId(SubSeq(repos, 1, Len(repos) - 1))
             last == repos[Len(repos)]
         IN  [pid \in DOMAIN rest \cup {last.pipeline_id} |->
                 IF pid = last.pipeline_id THEN last ELSE rest[pid]]

\* the keys of the dict in insertion order: the order of successful_repos
KeysInOrder(d) ==
    LET all == [k \in DOMAIN successful_repos |-> successful_repos[k].pipeline_id]
    IN  SelectSeq(all, LAMBDA pid : pid \in DOMAIN d)

\* variant of PopAll: only the first pid of the list is popped
PopAll_OnlyFirst(d, pids) ==
    [pid \in DOMAIN d \ {pids[i] : i \in DOMAIN pids \cap {1}} |-> d[pid]]

\* dict.pop(pid, None) for every pid of a list
PopAll(d, pids) ==
    [pid \in DOMAIN d \ {pids[i] : i \in DOMAIN pids} |-> d[pid]]

\* lines 136-142: the call starts
RunInit ==
    /\ \E n \in 0 .. MaxTriggered : successful_repos = [k \in 1 .. n |-> TriggeredRepo(k)]
    /\ timeout \in 0 .. MaxTimeout
    /\ elapsed_time = 0
    /\ pending_pipelines = DictByPipelineId(successful_repos)
    /\ completed_pipelines = <<>>
    /\ run_failed_pipelines = <<>>
    /\ to_remove = <<>>
    /\ run_iter = <<>>
    /\ run_pc = "loop"
    /\ last_status = <<>>
    /\ seen_manual = {}
    /\ left_by = "none"
    /\ MonitorIdle
    /\ LoaderIdle
    /\ StopIdle
    /\ VaultIdle
    /\ MainIdle
    /\ BatchIdle

\* lines 144-153: the test of the while loop, the timeout, the start of a pass
RunLoopTest ==
    /\ run_pc = "loop"
    /\ IF pending_pipelines = <<>>
       THEN /\ run_pc' = "returned"
            /\ left_by' = "drained"
            /\ UNCHANGED <<to_remove, run_iter>>
       ELSE IF elapsed_time > timeout
            THEN /\ run_pc' = "returned"
                 /\ left_by' = "timeout"
                 /\ UNCHANGED <<to_remove, run_iter>>
            ELSE /\ to_remove' = <<>>
                 /\ run_iter' = KeysInOrder(pending_pipelines)
                 /\ run_pc' = "check"
                 /\ UNCHANGED left_by
    /\ UNCHANGED <<successful_repos, timeout, elapsed_time, pending_pipelines,
                   completed_pipelines, run_failed_pipelines, last_status, seen_manual>>
    /\ UNCHANGED notRun

\* the pass goes on with the next key or ends
RunAfterCheck == IF Len(run_iter) > 1 THEN "check" ELSE "remove"

\* lines 154-175: one pipeline of the pass; the call takes no or some time
RunCheck ==
    /\ run_pc = "check"
    /\ LET pipeline_id == Head(run_iter)
           repo == pending_pipelines[pipeline_id]
           Seen(st) == last_status' =
                          [pid \in DOMAIN last_status \cup {pipeline_id} |->
                              IF pid = pipeline_id THEN st ELSE last_status[pid]]
       IN  /\ run_iter' = Tail(run_iter)
           /\ \E d \in 0 .. 1 :
                 elapsed_time' = IF elapsed_time + d > MaxTimeout + 1 THEN elapsed_time
                                 ELSE elapsed_time + d
           /\ \/ \E st \in RunStatuses :
                    /\ Seen(st)
                    /\ run_pc' = RunAfterCheck
                    /\ IF st \in RunFinal
                       THEN IF st = "manual"
                            THEN /\ seen_manual' = seen_manual \cup {pipeline_id}
                                 /\ UNCHANGED <<completed_pipelines, run_failed_pipelines,
                                                to_remove>>
                            ELSE /\ IF st = "success"
                                    THEN /\ completed_pipelines' =
                                               Append(completed_pipelines, repo)
                                         /\ UNCHANGED run_failed_pipelines
                                    ELSE /\ run_failed_pipelines' =
                                               Append(run_failed_pipelines, repo)
                                         /\ UNCHANGED completed_pipelines
                                 /\ to_remove' = Append(to_remove, pipeline_id)
                                 /\ UNCHANGED seen_manual
                       ELSE UNCHANGED <<completed_pipelines, run_failed_pipelines,
                                        to_remove, seen_manual>>
              \/ \* lines 172-175: GitlabGetError
                 /\ Seen("GitlabGetError")
                 /\ run_failed_pipelines' = Append(run_failed_pipelines, repo)
                 /\ to_remove' = Append(to_remove, pipeline_id)
                 /\ run_pc' = RunAfterCheck
                 /\ UNCHANGED <<completed_pipelines, seen_manual>>
              \/ \* any other exception leaves monitor_pipelines
                 /\ Seen("Exception")
                 /\ run_pc' = "raised"
                 /\ UNCHANGED <<completed_pipelines, run_failed_pipelines, to_remove,
                                seen_manual>>
    /\ UNCHANGED <<successful_repos, timeout, pending_pipelines, left_by>>
    /\ UNCHANGED notRun

\* lines 177-185: the pops, the test of the emptied dict, time.sleep(interval)
RunRemove ==
    /\ run_pc = "remove"
    /\ pending_pipelines' = PopAll(pending_pipelines, to_remove)
    /\ IF pending_pipelines' = <<>>
       THEN /\ run_pc' = "returned"
            /\ left_by' = "drained"
            /\ UNCHANGED elapsed_time
       ELSE /\ run_pc' = "loop"
            /\ elapsed_time' = IF elapsed_time > MaxTimeout THEN elapsed_time
                               ELSE elapsed_time + 1
            /\ UNCHANGED left_by
    /\ UNCHANGED <<successful_repos, timeout, completed_pipelines, run_failed_pipelines,
                   to_remove, run_iter, last_status, seen_manual>>
    /\ UNCHANGED notRun

RunNext == RunLoopTest \/ RunCheck \/ RunRemove

RunSpec == RunInit /\ [][RunNext]_runVars

(* ---------------- gitlab_batch_update.py: the loop of lines 67-139 ---------------- *)

\* the value of GITLAB_URL, and the lines of REPOS_FILE: two projects whose last
\* path segment is the same, and one that is given without ".git"
BatchGitlabUrl == <<"u">>
BatchUrls == {<<"u", "/", "a", "/", "b">> \o DotGit, <<"u", "/", "b">> \o DotGit,
              <<"u", "/", "a">>}

\* line 77: repo_url.replace(GITLAB_URL + "/", "").replace(".git", "")
ProjectPath(repo_url) == Remove(Remove(repo_url, BatchGitlabUrl \o <<"/">>), DotGit)

\* os.path.basename: what follows the last "/"
RECURSIVE Basename(_)
Basename(path) ==
    IF path = <<>> THEN <<>>
    ELSE IF \E i \in DOMAIN path : path[i] = "/" THEN Basename(Tail(path))
    ELSE path

\* line 82: os.path.basename(project_path)
RepoDir(repo_url) == Basename(ProjectPath(repo_url))

\* the directories a run can meet in the working directory
BatchDirs == {RepoDir(u) : u \in BatchUrls}

\* the lists of repositories: up to MaxBatchRepos lines
BatchLists == UNION {[1 .. n -> BatchUrls] : n \in 1 .. MaxBatchRepos}

\* variant of CleanUp: the finally clause leaves the directory where it is
CleanUp_Keeps(d, dir) == d

\* lines 137-139: if repo_dir and os.path.exists(repo_dir): shutil.rmtree(repo_dir)
CleanUp(d, dir) == IF dir # None /\ dir \in d THEN d \ {dir} ELSE d

\* the three totals
Totals == <<successful_pushes, Len(failed_repos), Len(no_changes_repos)>>

\* lines 67-70, with the working directory as the run finds it
BatchInit ==
    /\ batch_repositories \in BatchLists
    /\ batch_k = 1
    /\ repo_dir = None
    /\ disk \in SUBSET BatchDirs
    /\ target_file = "none"
    /\ failed_repos = <<>>
    /\ no_changes_repos = <<>>
    /\ successful_pushes = 0
    /\ batch_pc = "for"
    /\ batch_error = "none"
    /\ report_written = FALSE
    /\ cloned = FALSE
    /\ at_start = <<0, 0, 0>>
    /\ MonitorIdle
    /\ LoaderIdle
    /\ StopIdle
    /\ VaultIdle
    /\ MainIdle
    /\ RunIdle

\* lines 73-79: the next repository, repo_dir = None and gl.projects.get, which
\* answers or raises; the loop ends when the list is exhausted
BatchFor ==
    /\ batch_pc = "for"
    /\ IF batch_k > Len(batch_repositories)
       THEN /\ batch_pc' = "summary"
            /\ UNCHANGED <<repo_dir, batch_error, cloned, at_start>>
       ELSE /\ repo_dir' = None
            /\ cloned' = FALSE
            /\ at_start' = Totals
            /\ \/ batch_pc' = "clone" /\ batch_error' = "none"
               \/ batch_pc' = "except" /\ batch_error' = "GitlabGetError"
    /\ UNCHANGED <<batch_repositories, batch_k, disk, target_file, failed_repos,
                   no_changes_repos, successful_pushes, report_written>>
    /\ UNCHANGED notBatch

\* lines 82-87: repo_dir, the removal of a directory of that name, Repo.clone_from
BatchClone ==
    /\ batch_pc = "clone"
    /\ repo_dir' = RepoDir(batch_repositories[batch_k])
    /\ \/ \* shutil.rmtree of line 85 raises
          /\ repo_dir' \in disk
          /\ batch_pc' = "except"
          /\ batch_error' = "OSError"
          /\ UNCHANGED <<disk, target_file, cloned>>
       \/ \* clone_from raises, with or without a directory left behind
          /\ cloned' = TRUE
          /\ batch_pc' = "except"
          /\ batch_error' = "GitCommandError"
          /\ \E left \in BOOLEAN :
                disk' = IF left THEN disk \cup {repo_dir'} ELSE disk \ {repo_dir'}
          /\ UNCHANGED target_file
       \/ \* the clone is made
          /\ cloned' = TRUE
          /\ batch_pc' = "checkout"
          /\ disk' = disk \cup {repo_dir'}
          /\ target_file' \in {"missing", "same", "differs"}
          /\ UNCHANGED batch_error
    /\ UNCHANGED <<batch_repositories, batch_k, failed_repos, no_changes_repos,
                   successful_pushes, report_written, at_start>>
    /\ UNCHANGED notBatch

\* lines 90-94: Repo(repo_dir) and the two checkouts
BatchCheckout ==
    /\ batch_pc = "checkout"
    /\ \/ batch_pc' = "update" /\ UNCHANGED batch_error
       \/ batch_pc' = "except" /\ batch_error' = "GitCommandError"
    /\ UNCHANGED <<batch_repositories, batch_k, repo_dir, disk, target_file, failed_repos,
                   no_changes_repos, successful_pushes, report_written, cloned, at_start>>
    /\ UNCHANGED notBatch

\* lines 97-113: the target file is rewritten, found unchanged (continue) or missing
BatchUpdate ==
    /\ batch_pc = "update"
    /\ \/ /\ target_file = "missing"
          /\ batch_pc' = "except"
          /\ batch_error' = "FileNotFoundError"
          /\ UNCHANGED <<target_file, no_changes_repos>>
       \/ /\ target_file = "same"
          /\ no_changes_repos' =
                Append(no_changes_repos,
                       [repo_url |-> batch_repositories[batch_k],
                        reason |-> "No changes made to target file."])
          /\ batch_pc' = "finally"
          /\ UNCHANGED <<target_file, batch_error>>
       \/ /\ target_file = "differs"
          /\ \/ /\ target_file' = "written"
                /\ batch_pc' = "commit"
                /\ UNCHANGED batch_error
             \/ \* one of the open() calls raises
                /\ batch_pc' = "except"
                /\ batch_error' = "OSError"
                /\ UNCHANGED target_file
          /\ UNCHANGED no_changes_repos
    /\ UNCHANGED <<batch_repositories, batch_k, repo_dir, disk, failed_repos,
                   successful_pushes, report_written, cloned, at_start>>
    /\ UNCHANGED notBatch

\* lines 116-130: add, commit and push, and the handler of the inner try
BatchCommitPush ==
    /\ batch_pc = "commit"
    /\ \/ \* git add raises, or commit or push raise something else than
          \* "nothing to commit", which the handler raises again
          /\ batch_pc' = "except"
          /\ batch_error' = "GitCommandError"
          /\ UNCHANGED <<no_changes_repos, successful_pushes>>
       \/ \* "nothing to commit" in str(push_error)
          /\ no_changes_repos' =
                Append(no_changes_repos,
                       [repo_url |-> batch_repositories[batch_k],
                        reason |-> "No changes to commit."])
          /\ batch_pc' = "finally"
          /\ UNCHANGED <<batch_error, successful_pushes>>
       \/ \* committed and pushed
          /\ successful_pushes' = successful_pushes + 1
          /\ batch_pc' = "finally"
          /\ UNCHANGED <<batch_error, no_changes_repos>>
    /\ UNCHANGED <<batch_repositories, batch_k, repo_dir, disk, target_file, failed_repos,
                   report_written, cloned, at_start>>
    /\ UNCHANGED notBatch

\* lines 131-134: except Exception as e
BatchExcept ==
    /\ batch_pc = "except"
    /\ failed_repos' = Append(failed_repos, [repo_url |-> batch_repositories[batch_k],
                                             error |-> batch_error])
    /\ batch_pc' = "finally"
    /\ UNCHANGED <<batch_repositories, batch_k, repo_dir, disk, target_file,
                   no_changes_repos, successful_pushes, batch_error, report_written,
                   cloned, at_start>>
    /\ UNCHANGED notBatch

\* lines 135-139: the finally clause; an exception of shutil.rmtree is caught by
\* nothing and ends the script
BatchFinally ==
    /\ batch_pc = "finally"
    /\ \/ /\ disk' = CleanUp(disk, repo_dir)
          /\ batch_k' = batch_k + 1
          /\ batch_pc' = "for"
       \/ /\ repo_dir # None
          /\ repo_dir \in disk
          /\ batch_pc' = "crashed"
          /\ UNCHANGED <<disk, batch_k>>
    /\ UNCHANGED <<batch_repositories, repo_dir, target_file, failed_repos,
                   no_changes_repos, successful_pushes, batch_error, report_written,
                   cloned, at_start>>
    /\ UNCHANGED notBatch

\* lines 141-175: the summary report is written when a repository failed or had
\* no changes
BatchSummary ==
    /\ batch_pc = "summary"
    /\ report_written' = (failed_repos # <<>> \/ no_changes_repos # <<>>)
    /\ batch_pc' = "done"
    /\ UNCHANGED <<batch_repositories, batch_k, repo_dir, disk, target_file, failed_repos,
                   no_changes_repos, successful_pushes, batch_error, cloned, at_start>>
    /\ UNCHANGED notBatch

BatchNext ==
    \/ BatchFor
    \/ BatchClone
    \/ BatchCheckout
    \/ BatchUpdate
    \/ BatchCommitPush
    \/ BatchExcept
    \/ BatchFinally
    \/ BatchSummary

BatchSpec == BatchInit /\ [][BatchNext]_batchVars

(* ---------------- vocabulary of the properties ---------------- *)

Done == pc = "done"

\* the job names seen failed or canceled at least once
FailingJobs == {n \in JobNames : observed[n] > 0}

\* a job was seen failed or canceled while its tally was no longer below THRESHOLD
\* (every such observation is counted in observed but not in the tally)
ThresholdExceeded == \E n \in JobNames : observed[n] > Tally(n)

\* the tally of some job has reached THRESHOLD
TallyReachedThreshold ==
    \E n \in DOMAIN job_failures_by_name : job_failures_by_name[n] >= THRESHOLD

\* the worker returned after line 112 saw pipeline.status == "success"
ReturnedOnSuccessStatus ==
    /\ Done
    /\ raised = <<>>
    /\ pipeline # None
    /\ pipeline.status = "success"

\* the positions from which the worker makes no further call to the client
Leaving == pc \in {"check_failed_any_job", "return", "done"}

(* ---------------- C1 ---------------- *)

\* C1: with THRESHOLD >= 0, in every reachable state of a monitor_repository run
\* the failure tally of every job name is at most THRESHOLD.
C1_TallyAtMostThreshold ==
    THRESHOLD >= 0 =>
        \A n \in DOMAIN job_failures_by_name : job_failures_by_name[n] <= THRESHOLD

\* a tally stands at a positive THRESHOLD and the retry it paid for is about to be sent
C1_Witness ==
    /\ THRESHOLD >= 1
    /\ pc = "retry"
    /\ job_failures_by_name[full_job.name] = THRESHOLD

(* ---------------- C2 ---------------- *)

\* C2 as stated: from the moment a job's tally reaches THRESHOLD no retry
\* request is issued any more, and the worker ends with success = False.
C2_Original ==
    /\ [][TallyReachedThreshold => nRetry' = nRetry]_vars
    /\ [](TallyReachedThreshold /\ Done => ~result.success)

\* C2 amended: from the moment a job is seen failed or canceled while its tally
\* already stands at THRESHOLD, the worker makes no further call, issues no
\* retry request any more and ends with success = False.
C2_NoRetryOnceExceeded ==
    /\ [][ThresholdExceeded => nRetry' = nRetry]_vars
    /\ [](ThresholdExceeded => Leaving)
    /\ [](ThresholdExceeded /\ Done => ~result.success)

\* a worker that retried, then saw a job fail at a positive THRESHOLD, and returned
C2_Witness ==
    /\ THRESHOLD >= 1
    /\ ThresholdExceeded
    /\ Done
    /\ nRetry >= THRESHOLD

(* ---------------- C3 ---------------- *)

\* C3: whichever call to the client raised, the worker returns success = False
\* with a failure reason that contains the message of the exception.
C3_ReasonCarriesMessage ==
    (Done /\ raised # <<>>) =>
        /\ result.success = FALSE
        /\ \E i \in DOMAIN result.failed_pipelines :
              Contains(result.failed_pipelines[i], Text(raised[1]))

(* ---------------- C4 ---------------- *)

\* C4 as stated: a job seen failed or canceled THRESHOLD times (THRESHOLD >= 1,
\* no call raising) makes the worker return success = False with a reason that
\* names the job and the threshold.
C4_Original ==
    \A n \in JobNames :
        (Done /\ raised = <<>> /\ THRESHOLD >= 1 /\ observed[n] >= THRESHOLD) =>
            /\ result.success = FALSE
            /\ \E i \in DOMAIN result.failed_pipelines :
                  /\ Contains(result.failed_pipelines[i], Text(n))
                  /\ Contains(result.failed_pipelines[i], Str(THRESHOLD))

\* C4 amended: a job seen failed or canceled more than THRESHOLD times
\* (THRESHOLD >= 0), that is once more after its THRESHOLD retries, makes the
\* worker return success = False with a reason that names the job and the threshold.
C4_FailsAfterThresholdRetries ==
    \A n \in JobNames :
        (THRESHOLD >= 0 /\ observed[n] > THRESHOLD) =>
            /\ Leaving
            /\ Done =>
                /\ result.success = FALSE
                /\ \E i \in DOMAIN result.failed_pipelines :
                      /\ Contains(result.failed_pipelines[i], Text(n))
                      /\ Contains(result.failed_pipelines[i], Str(THRESHOLD))

\* deploy failed twice with THRESHOLD = 1: one retry, then the failure result
C4_Witness ==
    /\ THRESHOLD = 1
    /\ Done
    /\ observed["deploy"] = 2
    /\ result.retries = 1

(* ---------------- C5 ---------------- *)

\* C5: in every result returned, retries is the number of retry requests
\* the worker issued (calls of full_job.retry()).
C5_RetriesCountsRequests == Done => result.retries = nRetry

(* ---------------- C6 ---------------- *)

\* C6: when one job name was seen failed or canceled k < THRESHOLD times, no
\* other was, and the pipeline is then seen with status success, the result is
\* success = True with retries = k and a URL ending in /pipelines/<pipeline id>;
\* a pipeline that is success on the first poll gives retries = 0.
C6_SuccessAfterKFailures ==
    ReturnedOnSuccessStatus =>
        /\ \A n \in JobNames :
              (observed[n] < THRESHOLD /\ \A m \in JobNames \ {n} : observed[m] = 0) =>
                  /\ result.success = TRUE
                  /\ result.retries = observed[n]
                  /\ Len(result.last_pipeline_url) >= 2
                  /\ SubSeq(result.last_pipeline_url,
                            Len(result.last_pipeline_url) - 1,
                            Len(result.last_pipeline_url)) = <<Text("/pipelines/"), Str(pipeline.id)>>
        /\ nRefresh = 1 =>
              /\ result.success = TRUE
              /\ result.retries = 0
              /\ result.last_pipeline_url # None

\* build failed once below THRESHOLD = 2, was retried, and the pipeline succeeded
C6_Witness ==
    /\ ReturnedOnSuccessStatus
    /\ THRESHOLD = 2
    /\ observed["build"] = 1
    /\ observed["deploy"] = 0
    /\ nRefresh = 2

(* ---------------- C7 ---------------- *)

\* C7: a success result for a run in which no job was seen failing THRESHOLD
\* times has retries <= (THRESHOLD - 1) * (number of job names seen failing).
C7_RetriesBound ==
    (Done /\ result.success /\ \A n \in JobNames : observed[n] < THRESHOLD) =>
        result.retries <= (THRESHOLD - 1) * Cardinality(FailingJobs)

\* the bound is met: two names failed once each with THRESHOLD = 2
C7_Witness ==
    /\ Done
    /\ result.success
    /\ THRESHOLD = 2
    /\ Cardinality(FailingJobs) = 2
    /\ result.retries = 2

(* ---------------- C8 ---------------- *)

\* C8: with THRESHOLD = 0 no retry request is ever issued, and the first job
\* seen failed or canceled ends the run at once with the failure result,
\* retries = 0.
C8_ZeroThreshold ==
    THRESHOLD = 0 =>
        /\ nRetry = 0
        /\ retries = 0
        /\ \A n \in JobNames :
              observed[n] > 0 =>
                  /\ observed[n] = 1
                  /\ Leaving
                  /\ Done => result = MkResult(FALSE,
                                <<ThresholdReason(pipeline.id, n, 0)>>, None, 0)

\* with THRESHOLD = 0 a job was seen canceled and the worker returned
C8_Witness ==
    /\ THRESHOLD = 0
    /\ Done
    /\ FailingJobs # {}
    /\ full_job.status = "canceled"

(* ---------------- C9 ---------------- *)

\* C9: for a repository without pipeline the worker returns at once
\* success = False, the single reason "No pipeline found", retries = 0 and no
\* URL, and made no refresh, no job listing and no retry.
C9_NoPipeline ==
    (Done /\ pipeline = None /\ raised = <<>>) =>
        /\ result = [repo |-> repo_path, success |-> FALSE,
                     failed_pipelines |-> << <<Text("No pipeline found")>> >>,
                     last_pipeline_url |-> None, retries |-> 0]
        /\ nRefresh = 0
        /\ nListJobs = 0
        /\ nRetry = 0

\* project.pipelines.list answered with the empty list
C9_Witness ==
    /\ Done
    /\ pipeline = None
    /\ raised = <<>>
    /\ result.failed_pipelines # <<>>

(* ---------------- C10 ---------------- *)

\* C10: in every result returned, success holds iff failed_pipelines is empty
\* and iff last_pipeline_url is present; a failed result has at least one reason.
C10_ResultShape ==
    Done =>
        /\ result.success <=> (result.failed_pipelines = <<>>)
        /\ result.success <=> (result.last_pipeline_url # None)
        /\ ~result.success => Len(result.failed_pipelines) >= 1

\* a run that stopped on a caught exception with no reason recorded of its own
C10_Witness ==
    /\ Done
    /\ failed_any_job
    /\ failed_pipelines = <<>>
    /\ result.failed_pipelines = <<DidNotSucceedReason(pipeline.id)>>

(* ---------------- C19 ---------------- *)

\* C19: pipeline.jobs.list() is called only when the status just refreshed is
\* not success; on success the worker stops without a further call.
C19_ListJobsOnlyWhenNotSuccess ==
    [][nListJobs' # nListJobs => pipeline.status # "success"]_vars

(* ---------------- C20 ---------------- *)

\* C20 as stated: between two consecutive pipeline refreshes the worker
\* issues at most one retry request, and after a retry it examines no further job.
C20_Original ==
    /\ retriesSinceRefresh <= 1
    /\ pc \in {"job_get", "job_refresh", "retry"} => retriesSinceRefresh = 0

\* C20 amended: after a retry request and its pause the worker goes on with
\* the next job of the list fetched in this iteration, and refreshes the
\* pipeline again only once that list is exhausted: between two consecutive
\* pipeline refreshes it issues at most one retry request per listed job.
C20_OneRetryPerListedJob ==
    /\ [](retriesSinceRefresh <= Len(jobs))
    /\ [](pc \in {"job_get", "job_refresh", "retry", "sleep_retry"} =>
              /\ idx \in 1 .. Len(jobs)
              /\ retriesSinceRefresh <= idx)
    /\ [][pc = "sleep_retry" =>
              /\ idx' = idx + 1
              /\ pc' = IF idx < Len(jobs) THEN "job_get" ELSE "check_failed_any_job"]_vars

\* two jobs of one listing were each retried before the pipeline was refreshed again
C20_Witness ==
    /\ retriesSinceRefresh = 2
    /\ pc = "sleep_retry"
    /\ idx = 2

(* ---------------- C16 ---------------- *)

\* what C16 describes for one line: only a leading base-URL prefix and a
\* trailing ".git" are taken off the stripped line
LeadingAndTrailingOnly(line, url) ==
    LET t == Strip(line)
        u == IF StartsWith(t, UrlPrefix(url))
             THEN SubSeq(t, Len(UrlPrefix(url)) + 1, Len(t)) ELSE t
    IN  IF EndsWith(u, DotGit) THEN SubSeq(u, 1, Len(u) - Len(DotGit)) ELSE u

\* the non-blank lines of a file, in order
NonBlank(lines) == SelectSeq(lines, LAMBDA l : Strip(l) # <<>>)

\* C16: load_repositories returns one identifier per non-blank line, in input
\* order, each the line without its leading base-URL prefix and its trailing
\* ".git" and otherwise unchanged.
C16_LeadingPrefixTrailingSuffix ==
    loader_pc = "returned" =>
        /\ Len(loader_out) = Len(NonBlank(loader_file))
        /\ \A k \in DOMAIN loader_out :
              loader_out[k] = LeadingAndTrailingOnly(NonBlank(loader_file)[k], loader_url)

(* ---------------- C17 ---------------- *)

\* what the help text of --before promises for X days: the pipelines updated
\* after (NOW - X days) and before NOW
UpdatedInLastDays(ps, x) ==
    SelectSeq(ps, LAMBDA q : q.updated_at > StopNow - x /\ q.updated_at < StopNow)

\* C17: with "--before X", X a number of days, the pipelines fetched for
\* cancellation are those updated after (NOW - X days) and before NOW.
C17_BeforeIsLastDays ==
    (stop_pc = "pipeline" /\ before # None /\ "days" \in DOMAIN before) =>
        pipelines = UpdatedInLastDays(server_pipelines, before.days)

(* ---------------- C18 ---------------- *)

\* the value found in a structure under the nested keys of a path
RECURSIVE Lookup(_, _)
Lookup(structure, names) ==
    IF names = <<>> THEN structure
    ELSE IF Head(names) \in DOMAIN structure
         THEN Lookup(structure[Head(names)], Tail(names))
         ELSE None

\* the secrets C18 speaks of: beneath the base path, readable, not empty, and
\* reached without a listing the token is denied
Exportable(st, base) ==
    {q \in st.secrets :
        /\ IsProperPrefix(base, q)
        /\ q \notin st.unreadable \cup st.blank
        /\ \A d \in st.denied : ~IsPrefix(d, q)
        /\ \A r \in st.secrets : ~IsProperPrefix(r, q) /\ ~IsProperPrefix(q, r)}

\* C18: every readable, non-empty secret at any depth beneath the scanned base
\* path is in the structure export_namespace returns, under the nested keys of its path.
C18_EverySecretExported ==
    vault_pc = "returned" =>
        \A q \in Exportable(vault_store, vault_base) :
            Lookup(vault_result, SubSeq(q, Len(vault_base) + 1, Len(q))) = SecretData(q)

(* ---------------- C11 ---------------- *)

AllTerminated == \A i \in DOMAIN threads : threads[i].state = "terminated"

\* C12: when main hands results to generate_summary every thread has
\* terminated, and results holds one result per repository, in the order of
\* the repository list, whatever order the threads terminated in.
C12_ResultsInLaunchOrder ==
    main_pc \in {"summary", "return"} =>
        /\ AllTerminated
        /\ Len(threads) = Len(repositories)
        /\ Len(results) = Len(repositories)
        /\ \A k \in DOMAIN results :
              /\ results[k] = workers[k].result
              /\ results[k].repo = repositories[k]

\* the second thread terminated before the first
C12_Witness == main_pc = "summary" /\ Len(results) = 2 /\ finished = <<2, 1>>

(* ---------------- C13 ---------------- *)

\* C13 as stated: main reads no thread's result while any thread is still polling.
C13_Original == [][results' # results => AllTerminated]_mainVars

\* C13: main reads the result of a thread only after that thread has
\* terminated, one thread at a time in launch order, and generate_summary runs
\* only after all threads have terminated.
C13_ReadsOnlyTerminated ==
    /\ [][results' # results =>
            /\ threads[main_k].state = "terminated"
            /\ Len(results) = main_k - 1
            /\ results' = Append(results, workers[main_k].result)]_mainVars
    /\ [][summary' # summary => AllTerminated]_mainVars

\* main has read the result of the first thread while the second is polling
C13_Witness ==
    /\ Len(results) = 1
    /\ Len(threads) = 2
    /\ threads[2].state = "started"
    /\ workers[2].pc = "refresh"
    /\ workers[2].polls = 1

(* ---------------- C14 ---------------- *)

\* C14: generate_summary counts as passed the results with success true, as
\* failed the others, the two counts add up to the number of results, and the
\* list of tagged failure reasons is at least as long as the failed count.
C14_SummaryCounts ==
    summary # None =>
        /\ summary.passed_repos = Cardinality({k \in DOMAIN results : results[k].success})
        /\ summary.failed_repos = Cardinality({k \in DOMAIN results : ~results[k].success})
        /\ summary.passed_repos + summary.failed_repos = Len(results)
        /\ summary.total_repos = Len(results)
        /\ Len(summary.failed_pipelines_list) >= summary.failed_repos

\* a summary of one passed and one failed repository
C14_Witness ==
    /\ summary # None
    /\ summary.passed_repos = 1
    /\ summary.failed_repos = 1
    /\ Len(summary.failed_pipelines_list) = 1

(* ---------------- C15 ---------------- *)

\* GITLAB_URL, PRIVATE_TOKEN or the repositories file is missing
ConfigMissing ==
    environ.GITLAB_URL = None \/ environ.PRIVATE_TOKEN = None \/ ~repos_file.exists

\* THRESHOLD is set to a text int() rejects
ThresholdInvalid == environ.THRESHOLD # None /\ ~IsInt(environ.THRESHOLD)

\* C15 as stated: exit code 1 when required configuration is missing, 0 in every other run.
C15_Original ==
    main_pc = "exited" => exit_code = IF ConfigMissing THEN <<1>> ELSE <<0>>

\* C15: the exit code is 1 when required configuration is missing, when
\* THRESHOLD is not an integer or when GitLab refuses the connection or the
\* token, all before any thread is started; it is 0 in every other run,
\* whatever the results.
C15_ExitCode ==
    main_pc = "exited" =>
        /\ exit_code = IF ConfigMissing \/ ThresholdInvalid \/ ~gitlab_up
                       THEN <<1>> ELSE <<0>>
        /\ exit_code = <<1>> => threads = <<>> /\ summary = None
        /\ exit_code = <<0>> => summary # None

\* a run that ended with code 0 although a repository failed
C15_Witness ==
    /\ main_pc = "exited"
    /\ exit_code = <<0>>
    /\ summary.failed_repos > 0

(* ---------------- C21 ---------------- *)

\* C21: between two consecutive calls of pipeline.refresh() by the same run
\* there is at least one sleep(5), whatever the pipeline status and the job statuses.
C21_PauseBetweenRefreshes ==
    [][(nRefresh' # nRefresh /\ nRefresh >= 1) => pausedSinceRefresh]_vars

(* ---------------- C22 ---------------- *)

\* C22: the tally is keyed by job name and cumulative for the run: an entry
\* is never removed, never decreases and is never reset, and each failure
\* observed below the threshold adds one to the entry of the job's name,
\* whichever job instance carries that name.
C22_TallyCumulativeByName ==
    /\ [](DOMAIN job_failures_by_name \subseteq JobNames)
    /\ [][\A n \in DOMAIN job_failures_by_name :
             /\ n \in DOMAIN job_failures_by_name'
             /\ job_failures_by_name'[n] >= job_failures_by_name[n]]_vars
    /\ [][\A n \in JobNames :
             (observed'[n] # observed[n] /\ Tally(n) < THRESHOLD) =>
                 /\ n \in DOMAIN job_failures_by_name'
                 /\ job_failures_by_name'[n] = Tally(n) + 1]_vars

\* within one poll the failures of two jobs named build added up to 2
C22_Witness ==
    /\ nRefresh = 1
    /\ jobs = <<1, 2>>
    /\ JobNameOf(1) = JobNameOf(2)
    /\ retriesSinceRefresh = 2
    /\ job_failures_by_name = ("build" :> 2)

(* ---------------- C23 ---------------- *)

\* the positions inside the while loop of lines 108-175
Polling ==
    pc \in {"refresh", "list_jobs", "job_get", "job_refresh", "retry", "sleep_retry",
            "check_failed_any_job", "sleep_poll"}

\* C23: once the loop is entered, as long as the pipeline was not observed as
\* success, no job was observed failed or canceled with its tally at the
\* threshold and no call raised, the run is still in the loop and has returned
\* no result: nothing else ends the loop.
C23_NoOtherWayOut ==
    (pipeline # None /\ ~success /\ failed_pipelines = <<>> /\ raised = <<>>) =>
        /\ Polling
        /\ result = None

\* after MaxPolls polls of a failed pipeline, one of them with a retry, the run
\* is still in the loop
C23_Witness ==
    /\ nRefresh = MaxPolls
    /\ pc = "check_failed_any_job"
    /\ pipeline.status = "failed"
    /\ nRetry >= 1
    /\ ~failed_any_job
    /\ raised = <<>>
    /\ result = None

(* ---------------- C24 ---------------- *)

\* C24: when the pipeline of a thread has status success at every refresh from
\* some refresh on, the thread leaves the loop and returns a result, and once
\* that holds for every thread main produces the summary.
C24_SuccessEndsTheRun ==
    /\ \A i \in ThreadIds :
          (i \in DOMAIN threads) ~> (/\ i \in DOMAIN threads
                                     /\ threads[i].state = "terminated"
                                     /\ threads[i].result # None)
    /\ (main_pc = "join") ~> (summary # None)

\* a thread that polled MaxThreadPolls times, retried a job and returned on success
C24_Witness ==
    /\ Len(threads) = 2
    /\ threads[2].state = "terminated"
    /\ workers[2].polls = MaxThreadPolls
    /\ workers[2].retries >= 1
    /\ threads[2].result.success
    /\ summary # None

(* ---------------- C25 ---------------- *)

\* the sum of the values of a dict
RECURSIVE SumOf(_)
SumOf(d) ==
    IF DOMAIN d = {} THEN 0
    ELSE LET k == CHOOSE x \in DOMAIN d : TRUE
         IN  d[k] + SumOf([x \in DOMAIN d \ {k} |-> d[x]])

\* C25: in the poll loop retries equals the sum of the tallies of all job
\* names, and every increment of a tally is followed by exactly one call of
\* retry() on the job of that name that was seen failed.
C25_RetriesIsSumOfTallies ==
    /\ [](Polling => /\ retries = SumOf(job_failures_by_name)
                     /\ nRetry = IF pc = "retry" THEN retries - 1 ELSE retries)
    /\ [][\A n \in JobNames :
             (n \in DOMAIN job_failures_by_name' /\ job_failures_by_name'[n] # Tally(n)) =>
                 /\ job_failures_by_name'[n] = Tally(n) + 1
                 /\ pc' = "retry"
                 /\ full_job'.name = n]_vars
    /\ [][pc = "retry" => nRetry' = nRetry + 1 /\ pc' # "retry"]_vars

\* two names were retried once each
C25_Witness ==
    /\ pc = "sleep_retry"
    /\ job_failures_by_name = ("build" :> 1) @@ ("deploy" :> 1)
    /\ retries = 2
    /\ nRetry = 2

(* ---------------- C26 ---------------- *)

\* the pipeline ids of a list of repos
IdsOf(repos) == {repos[i].pipeline_id : i \in DOMAIN repos}

\* the three collections are pairwise disjoint, without repetition, and hold
\* exactly the triggered pipelines
RunPartition ==
    /\ IdsOf(completed_pipelines) \cap IdsOf(run_failed_pipelines) = {}
    /\ IdsOf(completed_pipelines) \cap DOMAIN pending_pipelines = {}
    /\ IdsOf(run_failed_pipelines) \cap DOMAIN pending_pipelines = {}
    /\ Cardinality(IdsOf(completed_pipelines)) = Len(completed_pipelines)
    /\ Cardinality(IdsOf(run_failed_pipelines)) = Len(run_failed_pipelines)
    /\ IdsOf(completed_pipelines) \cup IdsOf(run_failed_pipelines)
          \cup DOMAIN pending_pipelines = IdsOf(successful_repos)

\* C26 as stated: on return the three collections partition the triggered
\* pipelines, completed holds only pipelines last seen as success, and a
\* pipeline that was observed in manual status is still pending, the loop
\* having been left through the timeout.
C26_Original ==
    run_pc = "returned" =>
        /\ RunPartition
        /\ \A pid \in IdsOf(completed_pipelines) : last_status[pid] = "success"
        /\ \A pid \in seen_manual : pid \in DOMAIN pending_pipelines
        /\ seen_manual # {} => left_by = "timeout"

\* C26: on return the three collections partition the triggered pipelines;
\* completed holds the pipelines last seen as success, failed those last seen
\* as failed, canceled or skipped or whose get raised GitlabGetError, pending
\* those never seen or last seen as manual or not final; a check that sees
\* manual moves nothing; and the loop is left with pipelines pending only
\* through the timeout.
C26_PartitionOnReturn ==
    /\ [](run_pc = "returned" =>
            /\ RunPartition
            /\ \A pid \in IdsOf(completed_pipelines) : last_status[pid] = "success"
            /\ \A pid \in IdsOf(run_failed_pipelines) :
                  last_status[pid] \in {"failed", "canceled", "skipped", "GitlabGetError"}
            /\ \A pid \in DOMAIN pending_pipelines :
                  pid \in DOMAIN last_status => last_status[pid] \in {"running", "manual"}
            /\ pending_pipelines # <<>> => left_by = "timeout")
    /\ [][(run_pc = "check" /\ last_status'[Head(run_iter)] = "manual") =>
             /\ to_remove' = to_remove
             /\ completed_pipelines' = completed_pipelines
             /\ run_failed_pipelines' = run_failed_pipelines
             /\ pending_pipelines' = pending_pipelines]_runVars

\* the first pipeline was seen as manual and later as success, the second is
\* still manual when the timeout ends the loop
C26_Witness ==
    /\ run_pc = "returned"
    /\ left_by = "timeout"
    /\ 101 \in seen_manual
    /\ 101 \in IdsOf(completed_pipelines)
    /\ 102 \in DOMAIN pending_pipelines
    /\ last_status[102] = "manual"

(* ---------------- C27 ---------------- *)

\* C27: while the pipelines of a repository are iterated and when its counts
\* are recorded, detected = stopped + skipped + the cancel calls that raised,
\* and stopped is the length of the recorded list of stopped pipelines; cancel
\* is called only on running or pending pipelines whose ref passes the branch filter.
C27_CountsAddUp ==
    /\ [](stop_pc = "pipeline" =>
            /\ detected_count = stopped_count + skipped_count + cancel_errors
            /\ stopped_count = Len(stopped_pipelines[stop_repositories[stop_r]].pipelines)
            /\ detected_count = stop_k - 1)
    /\ [][(stop_pc = "pipeline" /\ stop_pc' = "repo") =>
             LET entry == stopped_pipelines'[stop_repositories[stop_r]]
             IN  /\ entry.detected = Len(pipelines)
                 /\ entry.detected = entry.stopped + entry.skipped + cancel_errors
                 /\ entry.stopped = Len(entry.pipelines)]_stopVars
    /\ [](\A i \in DOMAIN cancel_calls :
             /\ cancel_calls[i].status \in {"running", "pending"}
             /\ branch_name_filter # <<>> =>
                   \E j \in DOMAIN branch_name_filter :
                       branch_name_filter[j] = cancel_calls[i].ref)

\* a repository recorded with one pipeline stopped, one skipped by the branch
\* filter, after an earlier repository had a cancel call raise
C27_Witness ==
    /\ stop_pc = "returned"
    /\ Len(stop_repositories) = 2
    /\ branch_name_filter # <<>>
    /\ cancel_errors = 0
    /\ Len(cancel_calls) = 2
    /\ stop_repositories[2] \in DOMAIN stopped_pipelines
    /\ stopped_pipelines[stop_repositories[2]].detected = 2
    /\ stopped_pipelines[stop_repositories[2]].stopped = 1
    /\ stopped_pipelines[stop_repositories[2]].skipped = 1
    /\ stopped_pipelines[stop_repositories[1]].stopped = 0
    /\ stopped_pipelines[stop_repositories[1]].skipped = 1

(* ---------------- C28 ---------------- *)

\* the repository of the running iteration
BatchRepo == batch_repositories[batch_k]

\* the iteration of the loop ends and the for statement takes the next repository
IterationEnds == batch_k' = batch_k + 1

\* exactly one of the three totals is one more than when the iteration began, and a
\* list that grew got an entry of this repository
CountedOnce ==
    LET s == successful_pushes' - at_start[1]
        f == Len(failed_repos') - at_start[2]
        n == Len(no_changes_repos') - at_start[3]
    IN  /\ <<s, f, n>> \in {<<1, 0, 0>>, <<0, 1, 0>>, <<0, 0, 1>>}
        /\ f = 1 => failed_repos'[Len(failed_repos')].repo_url = BatchRepo
        /\ n = 1 => no_changes_repos'[Len(no_changes_repos')].repo_url = BatchRepo

\* C28: every repository the loop has processed is counted in exactly one of
\* successful_pushes, failed_repos and no_changes_repos, so that between iterations
\* and after the loop the three totals sum to the number of repositories processed,
\* and when an iteration that called clone_from ends, whatever its outcome, the
\* directory of the clone does not exist
C28_CountedOnceAndCleaned ==
    /\ [](batch_pc \in {"for", "summary", "done"} =>
            successful_pushes + Len(failed_repos) + Len(no_changes_repos) = batch_k - 1)
    /\ [](batch_pc \in {"summary", "done"} => batch_k - 1 = Len(batch_repositories))
    /\ [][IterationEnds => CountedOnce]_batchVars
    /\ [][IterationEnds /\ cloned => RepoDir(BatchRepo) \notin disk']_batchVars

\* a run of three repositories, two of them cloned into the same directory, ends with
\* one pushed, one left by the continue of line 111 and one failed after its clone,
\* and with no directory left
C28_Witness ==
    /\ batch_pc = "done"
    /\ Len(batch_repositories) = 3
    /\ RepoDir(batch_repositories[1]) = RepoDir(batch_repositories[2])
    /\ batch_repositories[1] # batch_repositories[2]
    /\ successful_pushes = 1
    /\ Len(no_changes_repos) = 1
    /\ no_changes_repos[1].reason = "No changes made to target file."
    /\ Len(failed_repos) = 1
    /\ failed_repos[1].error = "FileNotFoundError"
    /\ disk = {}
    /\ report_written

====
